---- MODULE Spec2Model ----
(***************************************************************************)
(* Wisdom Circuits K-12: the circuit chat route, the prompt composer        *)
(* (OpenAIService.generateSystemPrompt), the content store                  *)
(* (DatabaseStorage) and the routes that fill and archive it.               *)
(*                                                                          *)
(* Strings are TLA+ strings and are built with \o exactly where the code    *)
(* builds them with template literals and join(): a composed prompt is the  *)
(* byte sequence the code hands to the model boundary.                      *)
(***************************************************************************)
EXTENDS Integers, Sequences, FiniteSets, TLC

(***************************************************************************)
(* Bounds of the model.                                                     *)
(***************************************************************************)
MaxCircuits == 1    \* circuits ever created
MaxContent == 2     \* content rows ever inserted
MaxChats == 2       \* chat requests (each slot runs one turn)
MaxTags == 3        \* tags in one circuit payload, over its three collections
MaxRequests == 2    \* archive, unarchive and delete requests for circuits in flight,
                    \* and registrations in flight
MaxUsers == 2       \* rows of users
MaxSubscriptions == 2   \* rows of subscriptions
MaxPayments == 2    \* rows of payments

(***************************************************************************)
(* JavaScript values.  An optional value (undefined, or NULL in a nullable  *)
(* column) is a sequence of length at most one.                             *)
(***************************************************************************)
None == <<>>
Some(v) == <<v>>
IsSome(o) == Len(o) = 1
Get(o) == o[1]

\* a || b on optional strings: a when a is truthy (present and non-empty).
OrElse(a, b) == IF IsSome(a) /\ Get(a) # "" THEN a ELSE b

\* `${v}` of an optional string read from a row: NULL is rendered "null".
Interpolate(o) == IF IsSome(o) THEN Get(o) ELSE "null"

\* Array.prototype.join
RECURSIVE join(_, _)
join(arr, sep) ==
    IF Len(arr) = 0 THEN ""
    ELSE IF Len(arr) = 1 THEN arr[1]
    ELSE arr[1] \o sep \o join(Tail(arr), sep)

\* Array.prototype.filter(Boolean) on an array of strings
RECURSIVE filterBoolean(_)
filterBoolean(arr) ==
    IF Len(arr) = 0 THEN <<>>
    ELSE IF arr[1] # "" THEN <<arr[1]>> \o filterBoolean(Tail(arr))
    ELSE filterBoolean(Tail(arr))

(***************************************************************************)
(* OpenAIService.generateSystemPrompt: the three lookup tables.             *)
(***************************************************************************)
\* the teaching-style table with a default branch that passes the tag through
teachingStyleClause_PassThrough(style) ==
    CASE style = "authority" -> "direct and structured instruction"
      [] style = "demonstrator" -> "demonstration and guided practice"
      [] style = "facilitator" -> "guided inquiry and discussion"
      [] style = "delegator" -> "independent learning and group work"
      [] style = "hybrid" -> "flexible combination of teaching methods"
      [] OTHER -> style

teachingStyleClause(style) ==
    CASE style = "authority" -> "direct and structured instruction"
      [] style = "demonstrator" -> "demonstration and guided practice"
      [] style = "facilitator" -> "guided inquiry and discussion"
      [] style = "delegator" -> "independent learning and group work"
      [] style = "hybrid" -> "flexible combination of teaching methods"
      [] OTHER -> ""

homeworkClause(policy) ==
    CASE policy = "guide" -> "provide guidance without direct solutions"
      [] policy = "verify" -> "verify and confirm answer correctness"
      [] policy = "examples" -> "offer relevant examples"
      [] policy = "no_solutions" -> "encourage independent problem-solving"
      [] OTHER -> ""

responseClause(type) ==
    CASE type = "detailed" -> "provide comprehensive explanations"
      [] type = "concise" -> "give brief, focused answers"
      [] type = "step_by_step" -> "break down concepts into clear steps"
      [] type = "conceptual" -> "emphasize underlying principles"
      [] OTHER -> ""

\* the homework sentence built from the tags in the order of the table,
\* whatever the order of the input
homeworkApproach_TableOrder(homeworkPolicies) ==
    join(filterBoolean(
           [i \in 1 .. 4 |->
               LET tag == <<"guide", "verify", "examples", "no_solutions">>[i]
               IN  IF \E k \in DOMAIN homeworkPolicies : homeworkPolicies[k] = tag
                   THEN homeworkClause(tag) ELSE ""]), ", ")

\* .map(...).filter(Boolean).join(', ') of each collection
teachingStyleDesc(teachingStyles) ==
    join(filterBoolean([i \in DOMAIN teachingStyles |->
                            teachingStyleClause(teachingStyles[i])]), ", ")

homeworkApproach(homeworkPolicies) ==
    join(filterBoolean([i \in DOMAIN homeworkPolicies |->
                            homeworkClause(homeworkPolicies[i])]), ", ")

responseStyle(responseTypes) ==
    join(filterBoolean([i \in DOMAIN responseTypes |->
                            responseClause(responseTypes[i])]), ", ")

gradeLevel(grade) == IF grade = "K" THEN "Kindergarten" ELSE "Grade " \o grade

\* ${context.uploadedContent ? context.uploadedContent.join('\n') : '...'}
\* (every array, the empty one included, is truthy; only undefined is not)
knowledgeBase(uploadedContent) ==
    IF IsSome(uploadedContent) THEN join(Get(uploadedContent), "\n")
    ELSE "No specific content uploaded yet."

\* the directive sentences with the sentence of an empty clause list left out
directiveSentences_SkipEmpty(ts, hw, rs, stateAlignment) ==
    (IF ts = "" THEN <<>> ELSE << "Teaching Approach: Utilize " \o ts \o "." >>)
    \o (IF hw = "" THEN <<>> ELSE << "Homework Guidance: " \o hw \o "." >>)
    \o (IF rs = "" THEN <<>> ELSE << "Communication Style: " \o rs \o "." >>)
    \o << "State Alignment: Follow " \o stateAlignment \o " educational standards." >>

\* the directive sentences with the response sentence ahead of the homework one
directiveSentences_ResponseFirst(ts, hw, rs, stateAlignment) ==
    << "Teaching Approach: Utilize " \o ts \o ".",
       "Communication Style: " \o rs \o ".",
       "Homework Guidance: " \o hw \o ".",
       "State Alignment: Follow " \o stateAlignment \o " educational standards." >>

\* the four directive sentences, in the order of the template
directiveSentences(ts, hw, rs, stateAlignment) ==
    << "Teaching Approach: Utilize " \o ts \o ".",
       "Homework Guidance: " \o hw \o ".",
       "Communication Style: " \o rs \o ".",
       "State Alignment: Follow " \o stateAlignment \o " educational standards." >>

keyGuidelines(gl) ==
    << "Key Guidelines:",
       "1. Always communicate at a " \o gl \o " comprehension level",
       "2. Use age-appropriate examples and analogies",
       "3. Maintain a supportive and encouraging tone",
       "4. Follow the specified teaching styles and response formats",
       "5. Reference relevant uploaded content when applicable" >>

\* the closing block restating the homework policy where the response style
\* belongs, and the reverse
closingReminder_Crossed(gl, ts, hw, rs) ==
    << "Remember to:",
       "- Keep explanations appropriate for " \o gl \o " students",
       "- Use the teaching styles specified: " \o ts,
       "- Follow the homework policy: " \o rs,
       "- Maintain the response style: " \o hw >>

closingReminder(gl, ts, hw, rs) ==
    << "Remember to:",
       "- Keep explanations appropriate for " \o gl \o " students",
       "- Use the teaching styles specified: " \o ts,
       "- Follow the homework policy: " \o hw,
       "- Maintain the response style: " \o rs >>

\* the template literal, line by line
generateSystemPrompt(context) ==
    LET gl == gradeLevel(context.circuit.grade)
        ts == teachingStyleDesc(context.teachingStyles)
        hw == homeworkApproach(context.homeworkPolicies)
        rs == responseStyle(context.responseTypes)
    IN  join(<< "You are an educational AI assistant for " \o gl
                   \o " students, specializing in " \o context.circuit.name \o "." >>
             \o directiveSentences(ts, hw, rs, context.stateAlignment)
             \o << "" >>
             \o keyGuidelines(gl)
             \o << "", "Knowledge Base:", knowledgeBase(context.uploadedContent), "" >>
             \o closingReminder(gl, ts, hw, rs),
             "\n")

(***************************************************************************)
(* State.                                                                   *)
(*   wisdomCircuits, circuitContent   the two tables (sets of rows)         *)
(*   circuitSerial, contentSerial     the serial primary keys               *)
(*   now                              the clock behind defaultNow()         *)
(*   chat                             the chat requests and where each is   *)
(*   writes                           history: inserts, deletes and content *)
(*                                    archivals committed so far            *)
(*   archivedAt                       history: the value of writes when each *)
(*                                    content row was archived (0: never)    *)
(*   response                         the last response a route other than   *)
(*                                    chat has sent, with the request it     *)
(*                                    answers                                *)
(*   circuitRequests                  the archive, unarchive and delete      *)
(*                                    requests for circuits and where each is *)
(*   users, subscriptions, payments   three more tables                     *)
(*   registrations                    the requests of POST /api/register and *)
(*                                    where each is                           *)
(*   webhook                          the Stripe event being handled          *)
(***************************************************************************)
VARIABLES wisdomCircuits, circuitContent, circuitSerial, contentSerial, now,
          chat, writes, archivedAt, response, circuitRequests,
          users, subscriptions, payments, registrations, webhook

vars == <<wisdomCircuits, circuitContent, circuitSerial, contentSerial, now,
          chat, writes, archivedAt, response, circuitRequests,
          users, subscriptions, payments, registrations, webhook>>

\* the accounts and what is paid for them, with the requests that write them
accounts == <<users, subscriptions, payments, registrations, webhook>>

\* the database
tables == <<wisdomCircuits, circuitContent, circuitSerial, contentSerial, now,
            writes, archivedAt>>

\* everything a chat turn leaves alone
store == <<tables, response, circuitRequests, accounts>>

(***************************************************************************)
(* Inputs.                                                                  *)
(***************************************************************************)
\* req.user of an authenticated session
Users == {[id |-> 1, isTeacher |-> TRUE, isAdmin |-> FALSE],
          [id |-> 2, isTeacher |-> FALSE, isAdmin |-> FALSE]}

\* the same two, a second teacher, and an administrator who does not teach
Requesters ==
    Users \cup {[id |-> 3, isTeacher |-> TRUE, isAdmin |-> FALSE],
                [id |-> 4, isTeacher |-> FALSE, isAdmin |-> TRUE]}

\* req.body of POST /wisdom-circuits
ScenarioA ==
    [name |-> "Math", description |-> "Numbers", grade |-> Some("K"),
     teachingStyles |-> Some(<<"hybrid">>), homeworkPolicies |-> Some(<<"guide">>),
     responseTypes |-> Some(<<"detailed">>), stateAlignment |-> Some("California")]

EmptyCollections ==
    [name |-> "Art", description |-> "Colours", grade |-> Some("5"),
     teachingStyles |-> Some(<<>>), homeworkPolicies |-> Some(<<>>),
     responseTypes |-> Some(<<>>), stateAlignment |-> None]

NoName == [ScenarioA EXCEPT !.name = ""]

CircuitBodies == {ScenarioA, EmptyCollections, NoName}

\* req.file and req.body of POST /api/circuit-content/:circuitId
Uploads ==
    { [stem |-> "notes", ext |-> ".txt", data |-> "Unit 1: fractions",
       title |-> Some("Syllabus"), description |-> None],
      [stem |-> "slides", ext |-> ".pptx", data |-> "PK",
       title |-> None, description |-> Some("Pacing guide")],
      [stem |-> "scan", ext |-> ".PDF", data |-> "%PDF",
       title |-> Some("Scan"), description |-> None],
      [stem |-> "tool", ext |-> ".exe", data |-> "MZ",
       title |-> Some("Tool"), description |-> None] }

\* what the speech-to-text boundary answers
SpeechOk(text) == [ok |-> TRUE, text |-> text]
SpeechFailed == [ok |-> FALSE, text |-> ""]
PdfAnswers == {SpeechOk("Scanned text"), SpeechFailed}
TranscriptionAnswers == {SpeechOk("Good morning class"), SpeechFailed}

\* req.body.message of a chat turn
Messages == {"", "What is a fraction?"}

\* what the model boundary answers: choices[0].message.content, or an error
Completions == {[ok |-> TRUE, content |-> Some("A fraction is a part of a whole.")],
                [ok |-> TRUE, content |-> None],
                [ok |-> FALSE, content |-> None]}

\* what a route other than chat answers: the request (route, req.user.id, the
\* id it names, the extension of its file), the status and message sent, the
\* id of the row in the body (0: none), what became of the call this
\* request made to the speech-to-text boundary ("none": it made no call),
\* and how many calls it made
Respond(route, user, target, status, message) ==
    [route |-> route, user |-> user.id, target |-> target, ext |-> "",
     status |-> status, message |-> message, rowId |-> 0, boundary |-> "none",
     calls |-> 0]

NoResponse == Respond("", [id |-> 0], 0, 0, "")

\* a request for a circuit that has not arrived, or has been answered
\* (removed is history: the ids of the content rows the first statement of
\* its deleteWisdomCircuit has deleted)
IdleRequest ==
    [pc |-> "idle", route |-> "", user |-> 0, circuitId |-> 0, removed |-> {}]

\* a registration that has not arrived, or has been answered
IdleRegistration == [pc |-> "idle", email |-> ""]

\* no Stripe event is being handled
\* (madeSubscriptions is history: the ids of the subscription rows the
\* handling of the event has inserted; found is the row its lookup returned)
NoEvent == [type |-> "", mode |-> "", userId |-> None, subscription |-> "",
            paymentIntent |-> None, id |-> "", status |-> ""]
IdleWebhook == [pc |-> "idle", event |-> NoEvent, madeSubscriptions |-> {}, found |-> 0]

ChatIds == 1 .. MaxChats
RequestIds == 1 .. MaxRequests
\* ids a request can name: every serial value in use, and one that is not
CircuitIds == 1 .. (MaxCircuits + 1)
ContentIds == 1 .. (MaxContent + 1)

(***************************************************************************)
(* DatabaseStorage.                                                         *)
(***************************************************************************)
\* SELECT ... WHERE id = :id, first row or undefined
getWisdomCircuit(id) ==
    IF \E c \in wisdomCircuits : c.id = id
    THEN Some(CHOOSE c \in wisdomCircuits : c.id = id)
    ELSE None

\* every order in which a SELECT without ORDER BY may return a set of rows
Orderings(rows) ==
    {s \in [1 .. Cardinality(rows) -> rows] :
        \A i, j \in 1 .. Cardinality(rows) : i # j => s[i] # s[j]}

\* getCircuitContent without its is_archived condition
getCircuitContent_AllRows(circuitId) ==
    Orderings({c \in circuitContent : c.circuitId = circuitId})

\* a read that is not one statement: it may miss rows that are there
getCircuitContent_Partial(circuitId) ==
    UNION {Orderings(S) :
              S \in SUBSET {c \in circuitContent :
                               c.circuitId = circuitId /\ ~c.isArchived}}

\* SELECT ... WHERE circuit_id = :id AND is_archived = false (no ORDER BY):
\* the results the database may return
getCircuitContent(circuitId) ==
    Orderings({c \in circuitContent : c.circuitId = circuitId /\ ~c.isArchived})

\* INSERT ... RETURNING; circuit_id REFERENCES wisdom_circuits(id)
createCircuitContent(content) ==
    /\ \E c \in wisdomCircuits : c.id = content.circuitId
    /\ contentSerial < MaxContent
    /\ contentSerial' = contentSerial + 1
    /\ now' = now + 1
    /\ circuitContent' = circuitContent \cup
          {[id |-> contentSerial + 1, circuitId |-> content.circuitId,
            title |-> content.title, description |-> content.description,
            fileType |-> content.fileType, category |-> content.category,
            content |-> content.content, uploadedAt |-> now + 1,
            isArchived |-> FALSE]}
    /\ writes' = writes + 1
    /\ UNCHANGED <<wisdomCircuits, circuitSerial, archivedAt>>

\* the archival as DELETE FROM circuit_content WHERE id = :id
archiveCircuitContent_HardDelete(id) ==
    /\ circuitContent' = {c \in circuitContent : c.id # id}
    /\ writes' = IF circuitContent' # circuitContent THEN writes + 1 ELSE writes
    /\ UNCHANGED <<wisdomCircuits, circuitSerial, contentSerial, now, archivedAt>>

\* the archival as UPDATE ... SET is_archived = NOT is_archived
archiveCircuitContent_Toggle(id) ==
    /\ circuitContent' =
          {IF c.id = id THEN [c EXCEPT !.isArchived = ~c.isArchived] ELSE c :
              c \in circuitContent}
    /\ writes' = IF circuitContent' # circuitContent THEN writes + 1 ELSE writes
    /\ archivedAt' = IF circuitContent' # circuitContent
                     THEN [archivedAt EXCEPT ![id] = writes + 1] ELSE archivedAt
    /\ UNCHANGED <<wisdomCircuits, circuitSerial, contentSerial, now>>

\* UPDATE circuit_content SET is_archived = true WHERE id = :id
archiveCircuitContent(id) ==
    /\ circuitContent' =
          {IF c.id = id THEN [c EXCEPT !.isArchived = TRUE] ELSE c :
              c \in circuitContent}
    /\ writes' = IF circuitContent' # circuitContent THEN writes + 1 ELSE writes
    /\ archivedAt' = IF circuitContent' # circuitContent
                     THEN [archivedAt EXCEPT ![id] = writes + 1] ELSE archivedAt
    /\ UNCHANGED <<wisdomCircuits, circuitSerial, contentSerial, now>>

(***************************************************************************)
(* POST /wisdom-circuits.  Rejected requests (403, 400) change nothing.     *)
(***************************************************************************)
\* the values the route inserts
circuitValues(id, user, body) ==
    [id |-> id,
     name |-> body.name,
     teacherId |-> user.id,
     grade |-> IF IsSome(body.grade) THEN Get(body.grade) ELSE "K",
     \* x || default: an array, even an empty one, is truthy
     teachingStyles |-> IF IsSome(body.teachingStyles)
                        THEN Get(body.teachingStyles) ELSE <<"hybrid">>,
     homeworkPolicies |-> IF IsSome(body.homeworkPolicies)
                          THEN Get(body.homeworkPolicies) ELSE <<"guide">>,
     responseTypes |-> IF IsSome(body.responseTypes)
                       THEN Get(body.responseTypes) ELSE <<"detailed">>,
     stateAlignment |-> Get(OrElse(body.stateAlignment, Some("California"))),
     isArchived |-> FALSE]

CreateCircuit(user, body) ==
    /\ user.isTeacher
    /\ body.name # "" /\ body.description # ""
    /\ circuitSerial < MaxCircuits
    /\ circuitSerial' = circuitSerial + 1
    /\ wisdomCircuits' = wisdomCircuits \cup {circuitValues(circuitSerial + 1, user, body)}
    /\ writes' = writes + 1
    /\ UNCHANGED <<circuitContent, contentSerial, now, chat, archivedAt>>

(***************************************************************************)
(* POST /api/circuit-content/:circuitId                                     *)
(***************************************************************************)
\* String.prototype.toLowerCase on the extensions uploaded here
toLowerCase(ext) ==
    CASE ext = ".PDF" -> ".pdf"
      [] ext = ".TXT" -> ".txt"
      [] OTHER -> ext

\* the switch with .doc and .docx falling into the pdf case
fileTypeOf_DocAsPdf(fileExtension) ==
    CASE fileExtension \in {".pdf", ".doc", ".docx"} -> Some("pdf")
      [] fileExtension = ".txt" -> Some("txt")
      [] fileExtension \in {".ppt", ".pptx"} -> Some("pptx")
      [] OTHER -> None

\* the switch with a default branch that takes the file as text
fileTypeOf_DefaultTxt(fileExtension) ==
    CASE fileExtension = ".pdf" -> Some("pdf")
      [] fileExtension \in {".doc", ".docx"} -> Some("docx")
      [] fileExtension \in {".ppt", ".pptx"} -> Some("pptx")
      [] OTHER -> Some("txt")

\* the switch on the file extension; None is the 400 of the default branch
fileTypeOf(fileExtension) ==
    CASE fileExtension = ".pdf" -> Some("pdf")
      [] fileExtension \in {".doc", ".docx"} -> Some("docx")
      [] fileExtension = ".txt" -> Some("txt")
      [] fileExtension \in {".ppt", ".pptx"} -> Some("pptx")
      [] OTHER -> None

\* the extraction keeping the boundary's error as the text of a pdf
extractContent_ErrorText(fileType, data, answer) ==
    IF fileType = "txt" THEN data
    ELSE IF fileType = "pdf"
         THEN (IF answer.ok THEN answer.text ELSE "OpenAI API request failed")
    ELSE ""

\* the text read from the file: verbatim for txt, the boundary's answer for
\* pdf ('' when it is not ok or the call throws), '' for the rest
extractContent(fileType, data, answer) ==
    IF fileType = "txt" THEN data
    ELSE IF fileType = "pdf" THEN (IF answer.ok THEN answer.text ELSE "")
    ELSE ""

\* the upload route storing req.body.description as it came
UploadContent_RawDescription(user, circuitId, upload, answer) ==
    LET fileType == fileTypeOf(toLowerCase(upload.ext))
        content == extractContent(Get(fileType), upload.data, answer)
    IN  /\ user.isTeacher
        /\ IsSome(fileType)
        /\ createCircuitContent(
              [circuitId |-> circuitId,
               title |-> Get(OrElse(upload.title, Some(upload.stem \o upload.ext))),
               description |-> upload.description,
               fileType |-> Get(fileType),
               category |-> "reference_material",
               content |-> OrElse(Some(content), Some(""))])
        /\ UNCHANGED <<chat, accounts>>

UploadContent(user, circuitId, upload, answer) ==
    LET fileType == fileTypeOf(toLowerCase(upload.ext))
        content == extractContent(Get(fileType), upload.data, answer)
    IN  /\ user.isTeacher
        /\ IsSome(fileType)
        /\ createCircuitContent(
              [circuitId |-> circuitId,
               title |-> Get(OrElse(upload.title, Some(upload.stem \o upload.ext))),
               description |-> OrElse(upload.description, Some("")),
               fileType |-> Get(fileType),
               category |-> "reference_material",
               content |-> OrElse(Some(content), Some(""))])
        /\ UNCHANGED <<chat, accounts>>

(***************************************************************************)
(* POST /api/transcribe: the content row is created only after the          *)
(* speech-to-text call has returned; a failed call ends in the catch block. *)
(***************************************************************************)
\* the route saving a transcript whatever the speech-to-text call did
Transcribe_IgnoreFailure(user, circuitId, answer) ==
    /\ user.isTeacher
    /\ createCircuitContent(
          [circuitId |-> circuitId,
           title |-> "Class Recording Transcript - " \o ToString(now),
           description |-> Some("Automatically generated transcript from class recording"),
           fileType |-> "txt",
           category |-> "transcript",
           content |-> Some(answer.text)])
    /\ UNCHANGED <<chat, accounts>>

Transcribe(user, circuitId, answer) ==
    /\ user.isTeacher
    /\ answer.ok
    /\ createCircuitContent(
          [circuitId |-> circuitId,
           title |-> "Class Recording Transcript - " \o ToString(now),
           description |-> Some("Automatically generated transcript from class recording"),
           fileType |-> "txt",
           category |-> "transcript",
           content |-> Some(answer.text)])
    /\ UNCHANGED <<chat, accounts>>

(***************************************************************************)
(* DELETE /api/circuit-content/:id                                          *)
(***************************************************************************)
ArchiveContent(user, id) ==
    /\ user.isTeacher
    /\ archiveCircuitContent(id)
    /\ UNCHANGED <<chat, accounts>>

(***************************************************************************)
(* POST /api/circuit/:circuitId/chat.  The handler awaits the circuit read, *)
(* the content read and the model call: one step each.                      *)
(***************************************************************************)
IdleChat ==
    [pc |-> "idle", circuitId |-> 0, message |-> "",
     circuit |-> None, content |-> <<>>, context |-> None,
     systemPrompt |-> None, status |-> 0, response |-> "",
     contentReads |-> 0, modelCalls |-> 0,
     \* history: the value of writes when the content was read
     contentReadAt |-> 0]

\* c => `${c.title}:\n${c.content || c.description}`
excerpt(c) == c.title \o ":\n" \o Interpolate(OrElse(c.content, c.description))

processedContent(content) == [i \in DOMAIN content |-> excerpt(content[i])]

\* the context object the route hands to OpenAIService.processChatMessage
chatContext(circuit, content) ==
    [circuit |-> circuit,
     teachingStyles |-> circuit.teachingStyles,
     homeworkPolicies |-> circuit.homeworkPolicies,
     responseTypes |-> circuit.responseTypes,
     stateAlignment |-> Get(OrElse(Some(circuit.stateAlignment), Some("General"))),
     uploadedContent |-> Some(processedContent(content))]

ChatReceive(r, circuitId, message) ==
    /\ chat[r].pc = "idle"
    \* requests are numbered in the order they arrive
    /\ r > 1 => chat[r - 1].pc # "idle"
    /\ chat' = [chat EXCEPT ![r] =
          IF message = ""
          THEN [@ EXCEPT !.pc = "done", !.circuitId = circuitId, !.status = 400,
                         !.response = "Message is required"]
          ELSE [@ EXCEPT !.pc = "getWisdomCircuit", !.circuitId = circuitId,
                         !.message = message]]
    /\ UNCHANGED store

\* the chat route without its "Circuit not found" return
ChatGetCircuit_NoNotFound(r) ==
    /\ chat[r].pc = "getWisdomCircuit"
    /\ chat' = [chat EXCEPT ![r] =
          [@ EXCEPT !.pc = "getCircuitContent",
                    !.circuit = getWisdomCircuit(chat[r].circuitId)]]
    /\ UNCHANGED store

ChatGetCircuit(r) ==
    /\ chat[r].pc = "getWisdomCircuit"
    /\ LET circuit == getWisdomCircuit(chat[r].circuitId)
       IN  chat' = [chat EXCEPT ![r] =
              IF IsSome(circuit)
              THEN [@ EXCEPT !.pc = "getCircuitContent", !.circuit = circuit]
              ELSE [@ EXCEPT !.pc = "done", !.status = 404,
                             !.response = "Circuit not found"]]
    /\ UNCHANGED store

\* the route keeping the content of the turn before it instead of reading
ChatGetContent_Cached(r) ==
    /\ chat[r].pc = "getCircuitContent"
    /\ \E content \in IF r > 1 /\ chat[r - 1].contentReads > 0
                           /\ chat[r - 1].circuitId = chat[r].circuitId
                      THEN {chat[r - 1].content}
                      ELSE getCircuitContent(chat[r].circuitId) :
          chat' = [chat EXCEPT ![r] =
              [@ EXCEPT !.pc = "processChatMessage", !.content = content,
                        !.context = Some(chatContext(Get(chat[r].circuit), content)),
                        !.contentReads = @ + 1, !.contentReadAt = writes]]
    /\ UNCHANGED store

ChatGetContent(r) ==
    /\ chat[r].pc = "getCircuitContent"
    /\ \E content \in getCircuitContent(chat[r].circuitId) :
          chat' = [chat EXCEPT ![r] =
              [@ EXCEPT !.pc = "processChatMessage", !.content = content,
                        !.context = Some(chatContext(Get(chat[r].circuit), content)),
                        !.contentReads = @ + 1, !.contentReadAt = writes]]
    /\ UNCHANGED store

\* processChatMessage calling the model again when the call has failed
ChatCompletion_RetryOnFailure(r, completion) ==
    /\ chat[r].pc = "processChatMessage"
    /\ chat' = [chat EXCEPT ![r] =
          IF completion.ok
          THEN [@ EXCEPT !.pc = "done",
                         !.systemPrompt = Some(generateSystemPrompt(Get(chat[r].context))),
                         !.modelCalls = @ + 1,
                         !.status = 200,
                         !.response = Interpolate(completion.content)]
          ELSE [@ EXCEPT !.modelCalls = @ + 1]]
    /\ UNCHANGED store

\* OpenAIService.processChatMessage and the end of the route: the prompt is
\* composed, the model boundary is called once, and its answer or its
\* failure ends the turn.
ChatCompletion(r, completion) ==
    /\ chat[r].pc = "processChatMessage"
    /\ chat' = [chat EXCEPT ![r] =
          [@ EXCEPT !.pc = "done",
                    !.systemPrompt = Some(generateSystemPrompt(Get(chat[r].context))),
                    !.modelCalls = @ + 1,
                    !.status = IF completion.ok THEN 200 ELSE 500,
                    !.response =
                        IF completion.ok
                        THEN Get(OrElse(completion.content,
                               Some("I apologize, but I couldn't generate a response. Please try rephrasing your question.")))
                        ELSE "Failed to process chat message"]]
    /\ UNCHANGED store

(***************************************************************************)
(* ChatModal.handleSend: what the chat window appends to the conversation   *)
(* for the answer of a turn.                                                 *)
(***************************************************************************)
Apology == "I'm sorry, I'm having trouble responding right now. Please try again."

\* handleSend without its test of response.ok
handleSend_ShowBody(status, body) == body

\* response.ok is a status from 200 to 299; any other throws into the catch
\* block, which appends the apology
handleSend(status, body) ==
    IF status >= 200 /\ status <= 299 THEN body ELSE Apology

(***************************************************************************)
(* The program: an empty database, and requests arriving in any order.      *)
(***************************************************************************)
Init ==
    /\ wisdomCircuits = {}
    /\ circuitContent = {}
    /\ circuitSerial = 0
    /\ contentSerial = 0
    /\ now = 0
    /\ writes = 0
    /\ archivedAt = [id \in ContentIds |-> 0]
    /\ chat = [r \in ChatIds |-> IdleChat]
    /\ response = NoResponse
    /\ circuitRequests = [q \in RequestIds |-> IdleRequest]
    /\ users = {}
    /\ subscriptions = {}
    /\ payments = {}
    /\ registrations = [q \in RequestIds |-> IdleRegistration]
    /\ webhook = IdleWebhook

\* The turns of chat against a store that accepted requests change.  What the
\* other routes answer is not observed here: a refused request changes
\* nothing a chat turn reads.
Next ==
    \/ \E user \in Users, body \in CircuitBodies :
          CreateCircuit(user, body) /\ UNCHANGED <<response, circuitRequests, accounts>>
    \/ \E user \in Users, circuitId \in CircuitIds, upload \in Uploads,
          answer \in PdfAnswers :
             UploadContent(user, circuitId, upload, answer)
                /\ UNCHANGED <<response, circuitRequests, accounts>>
    \/ \E user \in Users, circuitId \in CircuitIds,
          answer \in TranscriptionAnswers :
             Transcribe(user, circuitId, answer)
                /\ UNCHANGED <<response, circuitRequests, accounts>>
    \/ \E user \in Users, id \in ContentIds :
          ArchiveContent(user, id) /\ UNCHANGED <<response, circuitRequests, accounts>>
    \/ \E r \in ChatIds, circuitId \in CircuitIds, message \in Messages :
          ChatReceive(r, circuitId, message)
    \/ \E r \in ChatIds : ChatGetCircuit(r)
    \/ \E r \in ChatIds : ChatGetContent(r)
    \/ \E r \in ChatIds, completion \in Completions : ChatCompletion(r, completion)

Spec == Init /\ [][Next]_vars

(***************************************************************************)
(* The mapper on its own: a circuit created from any payload of at most     *)
(* MaxTags tags (known, unknown, repeated, in any order), and one chat turn *)
(* that composes its prompt.                                                *)
(***************************************************************************)
\* the tags of the schema (teachingStyleSchema, homeworkPolicySchema,
\* responseTypeSchema)
TeachingStyleTags == {"authority", "demonstrator", "facilitator", "delegator", "hybrid"}
HomeworkPolicyTags == {"guide", "verify", "examples", "no_solutions"}
ResponseTypeTags == {"detailed", "concise", "step_by_step", "conceptual"}
\* a tag no lookup table has
UnknownTag == "socratic"

SeqsUpTo(S, n) == UNION {[1 .. k -> S] : k \in 0 .. n}

\* req.body of POST /wisdom-circuits with at most MaxTags tags in all
MapperBodies ==
    UNION { UNION { {[name |-> "Math", description |-> "Numbers", grade |-> g[1],
                      teachingStyles |-> Some(ts), homeworkPolicies |-> Some(hp),
                      responseTypes |-> Some(rt), stateAlignment |-> g[2]] :
                        g \in {<<Some("K"), Some("California")>>, <<Some("7"), None>>},
                        rt \in SeqsUpTo(ResponseTypeTags \cup {UnknownTag},
                                        MaxTags - Len(ts) - Len(hp))} :
                    hp \in SeqsUpTo(HomeworkPolicyTags \cup {UnknownTag},
                                    MaxTags - Len(ts)) } :
            ts \in SeqsUpTo(TeachingStyleTags \cup {UnknownTag}, MaxTags) }

InitMapper ==
    /\ \E body \in MapperBodies :
          wisdomCircuits = {circuitValues(1, [id |-> 1, isTeacher |-> TRUE], body)}
    /\ circuitContent = {}
    /\ circuitSerial = 1
    /\ contentSerial = 0
    /\ now = 0
    /\ writes = 1
    /\ archivedAt = [id \in ContentIds |-> 0]
    /\ chat = [r \in ChatIds |-> IdleChat]
    /\ response = NoResponse
    /\ circuitRequests = [q \in RequestIds |-> IdleRequest]
    /\ users = {}
    /\ subscriptions = {}
    /\ payments = {}
    /\ registrations = [q \in RequestIds |-> IdleRegistration]
    /\ webhook = IdleWebhook

NextMapper ==
    \/ \E circuitId \in CircuitIds, message \in Messages :
          ChatReceive(1, circuitId, message)
    \/ ChatGetCircuit(1)
    \/ ChatGetContent(1)
    \/ \E completion \in Completions : ChatCompletion(1, completion)

MapperSpec == InitMapper /\ [][NextMapper]_vars

(***************************************************************************)
(* The routes with what they answer.  Each is its handler whole: the        *)
(* accepted request above, which changes the store, or one of the returns   *)
(* and catch blocks, which change nothing.                                   *)
(***************************************************************************)
\* POST /wisdom-circuits
PostWisdomCircuits(user, body) ==
    LET Send(status, message) ==
            response' = Respond("POST /wisdom-circuits", user, 0, status, message)
    IN  \/ /\ CreateCircuit(user, body)
           /\ response' = [Respond("POST /wisdom-circuits", user, 0, 201, "")
                              EXCEPT !.rowId = circuitSerial + 1]
           /\ UNCHANGED <<circuitRequests, accounts>>
        \/ /\ ~user.isTeacher
           /\ Send(403, "Only teachers can create circuits")
           /\ UNCHANGED <<tables, chat, circuitRequests, accounts>>
        \/ /\ user.isTeacher
           /\ body.name = "" \/ body.description = ""
           /\ Send(400, "Missing required fields")
           /\ UNCHANGED <<tables, chat, circuitRequests, accounts>>

\* the call the upload route makes to the speech-to-text boundary: one for a
\* pdf, none for any other file type
extractionCall(fileType, answer) ==
    IF fileType # "pdf" THEN "none" ELSE IF answer.ok THEN "ok" ELSE "failed"

\* POST /api/circuit-content/:circuitId
PostCircuitContent(user, circuitId, upload, answer) ==
    LET fileType == fileTypeOf(toLowerCase(upload.ext))
        Send(status, message, rowId, boundary) ==
            response' = [Respond("POST /api/circuit-content/:circuitId", user,
                                 circuitId, status, message)
                            EXCEPT !.ext = upload.ext, !.rowId = rowId,
                                   !.boundary = boundary,
                                   !.calls = IF boundary = "none" THEN 0 ELSE 1]
    IN  \/ /\ UploadContent(user, circuitId, upload, answer)
           /\ Send(200, "", contentSerial + 1,
                   extractionCall(Get(fileType), answer))
           /\ UNCHANGED <<circuitRequests, accounts>>
        \/ /\ ~user.isTeacher
           /\ Send(403, "Only teachers can upload content", 0, "none")
           /\ UNCHANGED <<tables, chat, circuitRequests, accounts>>
        \/ /\ user.isTeacher
           /\ ~IsSome(fileType)
           /\ Send(400, "Unsupported file type", 0, "none")
           /\ UNCHANGED <<tables, chat, circuitRequests, accounts>>
        \* the INSERT violates the foreign key: the catch block answers
        \/ /\ user.isTeacher
           /\ IsSome(fileType)
           /\ IsSome(getWisdomCircuit(circuitId)) = FALSE
           /\ Send(500, "Failed to upload content", 0,
                   extractionCall(Get(fileType), answer))
           /\ UNCHANGED <<tables, chat, circuitRequests, accounts>>

\* POST /api/transcribe
PostTranscribe(user, circuitId, answer) ==
    LET Send(status, message, rowId, boundary) ==
            response' = [Respond("POST /api/transcribe", user, circuitId,
                                 status, message)
                            EXCEPT !.rowId = rowId, !.boundary = boundary,
                                   !.calls = IF boundary = "none" THEN 0 ELSE 1]
    IN  \/ /\ Transcribe(user, circuitId, answer)
           /\ Send(200, "", contentSerial + 1, IF answer.ok THEN "ok" ELSE "failed")
           /\ UNCHANGED <<circuitRequests, accounts>>
        \/ /\ ~user.isTeacher
           /\ Send(403, "Only teachers can upload recordings", 0, "none")
           /\ UNCHANGED <<tables, chat, circuitRequests, accounts>>
        \* openai.audio.transcriptions.create throws
        \/ /\ user.isTeacher
           /\ ~answer.ok
           /\ Send(500, "OpenAI API error", 0, "failed")
           /\ UNCHANGED <<tables, chat, circuitRequests, accounts>>
        \* the INSERT violates the foreign key
        \/ /\ user.isTeacher
           /\ answer.ok
           /\ IsSome(getWisdomCircuit(circuitId)) = FALSE
           /\ Send(500, "Failed to process audio recording. Please try again.",
                   0, "ok")
           /\ UNCHANGED <<tables, chat, circuitRequests, accounts>>

\* DELETE /api/circuit-content/:id.  res.json(content) answers 200 with the
\* row the UPDATE returned, or with no body when it matched no row.
DeleteCircuitContent(user, id) ==
    LET Send(status, message, rowId) ==
            response' = [Respond("DELETE /api/circuit-content/:id", user, id,
                                 status, message)
                            EXCEPT !.rowId = rowId]
    IN  \/ /\ ArchiveContent(user, id)
           /\ Send(200, "", IF \E c \in circuitContent : c.id = id THEN id ELSE 0)
           /\ UNCHANGED <<circuitRequests, accounts>>
        \/ /\ ~user.isTeacher
           /\ Send(403, "Only teachers can delete content", 0)
           /\ UNCHANGED <<tables, chat, circuitRequests, accounts>>

(***************************************************************************)
(* The content routes on their own: files of every extension the switch     *)
(* names and one it does not, sent by a teacher and by a student to a       *)
(* circuit that exists and to one that does not.                             *)
(***************************************************************************)
OfficeUploads ==
    { [stem |-> "plan", ext |-> e, data |-> "PK", title |-> None,
       description |-> None] : e \in {".doc", ".docx", ".ppt"} }

NextContent ==
    \/ \E user \in Users, body \in CircuitBodies : PostWisdomCircuits(user, body)
    \/ \E user \in Users, circuitId \in CircuitIds,
          upload \in Uploads \cup OfficeUploads, answer \in PdfAnswers :
             PostCircuitContent(user, circuitId, upload, answer)
    \/ \E user \in Users, circuitId \in CircuitIds,
          answer \in TranscriptionAnswers : PostTranscribe(user, circuitId, answer)
    \/ \E user \in Users, id \in ContentIds : DeleteCircuitContent(user, id)

ContentSpec == Init /\ [][NextContent]_vars

(***************************************************************************)
(* The requests that call an external boundary: recordings, pdf uploads and *)
(* one chat turn, each with a boundary that answers or fails.               *)
(***************************************************************************)
NextBoundary ==
    \/ \E user \in Users, body \in {ScenarioA, NoName} :
          PostWisdomCircuits(user, body)
    \/ \E user \in Users, circuitId \in CircuitIds,
          upload \in {u \in Uploads : toLowerCase(u.ext) \in {".pdf", ".exe"}},
          answer \in PdfAnswers :
             PostCircuitContent(user, circuitId, upload, answer)
    \/ \E user \in Users, circuitId \in CircuitIds,
          answer \in TranscriptionAnswers : PostTranscribe(user, circuitId, answer)
    \/ \E circuitId \in CircuitIds, message \in Messages :
          ChatReceive(1, circuitId, message)
    \/ ChatGetCircuit(1)
    \/ ChatGetContent(1)
    \/ \E completion \in Completions : ChatCompletion(1, completion)

BoundarySpec == Init /\ [][NextBoundary]_vars

(***************************************************************************)
(* DatabaseStorage: archiving, unarchiving and deleting a circuit.          *)
(* deleteWisdomCircuit is two statements with no transaction around them.   *)
(***************************************************************************)
\* SELECT ... WHERE teacher_id = :teacherId AND is_archived = false (no ORDER BY)
getWisdomCircuitsByTeacher(teacherId) ==
    Orderings({c \in wisdomCircuits : c.teacherId = teacherId /\ ~c.isArchived})

\* SELECT ... WHERE teacher_id = :teacherId AND is_archived = true (no ORDER BY)
getArchivedWisdomCircuitsByTeacher(teacherId) ==
    Orderings({c \in wisdomCircuits : c.teacherId = teacherId /\ c.isArchived})

\* the update taking the content of the circuit along with it
setCircuitArchived_Cascade(id, flag) ==
    /\ wisdomCircuits' =
          {IF c.id = id THEN [c EXCEPT !.isArchived = flag] ELSE c :
              c \in wisdomCircuits}
    /\ circuitContent' =
          {IF c.circuitId = id THEN [c EXCEPT !.isArchived = flag] ELSE c :
              c \in circuitContent}
    /\ UNCHANGED <<circuitSerial, contentSerial, now, writes, archivedAt>>

\* UPDATE wisdom_circuits SET is_archived = :flag WHERE id = :id
setCircuitArchived(id, flag) ==
    /\ wisdomCircuits' =
          {IF c.id = id THEN [c EXCEPT !.isArchived = flag] ELSE c :
              c \in wisdomCircuits}
    /\ UNCHANGED <<circuitContent, circuitSerial, contentSerial, now, writes,
                   archivedAt>>

\* the statement with ON DELETE CASCADE semantics: the circuit row goes even
\* though content rows still name it
deleteCircuitRow_NoForeignKey(id) ==
    /\ \E c \in wisdomCircuits : c.id = id
    /\ wisdomCircuits' = {c \in wisdomCircuits : c.id # id}
    /\ writes' = writes + 1
    /\ UNCHANGED <<circuitContent, circuitSerial, contentSerial, now, archivedAt>>

\* DELETE FROM circuit_content WHERE circuit_id = :id
deleteContentRows(id) ==
    /\ circuitContent' = {c \in circuitContent : c.circuitId # id}
    /\ writes' = IF circuitContent' # circuitContent THEN writes + 1 ELSE writes
    /\ UNCHANGED <<wisdomCircuits, circuitSerial, contentSerial, now, archivedAt>>

\* DELETE FROM wisdom_circuits WHERE id = :id RETURNING, when it deletes a
\* row: circuit_content.circuit_id REFERENCES wisdom_circuits(id), so the
\* statement fails while a content row names the circuit
deleteCircuitRow(id) ==
    /\ \E c \in wisdomCircuits : c.id = id
    /\ \A c \in circuitContent : c.circuitId # id
    /\ wisdomCircuits' = {c \in wisdomCircuits : c.id # id}
    /\ writes' = writes + 1
    /\ UNCHANGED <<circuitContent, circuitSerial, contentSerial, now, archivedAt>>

(***************************************************************************)
(* POST /wisdom-circuits/:id/archive, POST /wisdom-circuits/:id/unarchive   *)
(* and DELETE /wisdom-circuits/:id.  Each handler checks req.user, awaits   *)
(* getWisdomCircuit, checks the owner, and then awaits its storage call,    *)
(* one step for each statement of it.                                        *)
(***************************************************************************)
ArchiveRoute == "POST /wisdom-circuits/:id/archive"
UnarchiveRoute == "POST /wisdom-circuits/:id/unarchive"
DeleteRoute == "DELETE /wisdom-circuits/:id"

\* a request takes the first slot that is free
Free(q) ==
    /\ circuitRequests[q].pc = "idle"
    /\ \A p \in 1 .. (q - 1) : circuitRequests[p].pc # "idle"

\* the handler returns: the request is answered and is no longer in flight
Answer(q, rsp) ==
    /\ response' = rsp
    /\ circuitRequests' = [circuitRequests EXCEPT ![q] = IdleRequest]

\* the handler goes on to its storage call
Admit(q, route, user, circuitId, pc) ==
    /\ circuitRequests' = [circuitRequests EXCEPT ![q] =
          [pc |-> pc, route |-> route, user |-> user.id, circuitId |-> circuitId,
           removed |-> {}]]
    /\ UNCHANGED response

\* the unarchive route without its check of the owner
PostUnarchive_AnyTeacher(q, user, circuitId) ==
    /\ Free(q)
    /\ UNCHANGED <<tables, chat, accounts>>
    /\ IF ~user.isTeacher
       THEN Answer(q, Respond(UnarchiveRoute, user, circuitId, 403,
                              "Only teachers can unarchive circuits"))
       ELSE IF ~IsSome(getWisdomCircuit(circuitId))
       THEN Answer(q, Respond(UnarchiveRoute, user, circuitId, 404,
                              "Circuit not found"))
       ELSE Admit(q, UnarchiveRoute, user, circuitId, "unarchive")

PostArchive(q, user, circuitId) ==
    LET circuit == getWisdomCircuit(circuitId)
    IN  /\ Free(q)
        /\ UNCHANGED <<tables, chat, accounts>>
        /\ IF ~user.isTeacher
           THEN Answer(q, Respond(ArchiveRoute, user, circuitId, 403,
                                  "Only teachers can archive circuits"))
           ELSE IF ~IsSome(circuit)
           THEN Answer(q, Respond(ArchiveRoute, user, circuitId, 404,
                                  "Circuit not found"))
           ELSE IF Get(circuit).teacherId # user.id
           THEN Answer(q, Respond(ArchiveRoute, user, circuitId, 403,
                                  "You can only archive your own circuits"))
           ELSE Admit(q, ArchiveRoute, user, circuitId, "archiveSelect")

PostUnarchive(q, user, circuitId) ==
    LET circuit == getWisdomCircuit(circuitId)
    IN  /\ Free(q)
        /\ UNCHANGED <<tables, chat, accounts>>
        /\ IF ~user.isTeacher
           THEN Answer(q, Respond(UnarchiveRoute, user, circuitId, 403,
                                  "Only teachers can unarchive circuits"))
           ELSE IF ~IsSome(circuit)
           THEN Answer(q, Respond(UnarchiveRoute, user, circuitId, 404,
                                  "Circuit not found"))
           ELSE IF Get(circuit).teacherId # user.id
           THEN Answer(q, Respond(UnarchiveRoute, user, circuitId, 403,
                                  "You can only unarchive your own circuits"))
           ELSE Admit(q, UnarchiveRoute, user, circuitId, "unarchive")

DeleteCircuit(q, user, circuitId) ==
    LET circuit == getWisdomCircuit(circuitId)
    IN  /\ Free(q)
        /\ UNCHANGED <<tables, chat, accounts>>
        /\ IF ~user.isTeacher /\ ~user.isAdmin
           THEN Answer(q, Respond(DeleteRoute, user, circuitId, 403,
                                  "Only teachers or admins can delete circuits"))
           ELSE IF ~IsSome(circuit)
           THEN Answer(q, Respond(DeleteRoute, user, circuitId, 404,
                                  "Circuit not found"))
           ELSE IF Get(circuit).teacherId # user.id /\ ~user.isAdmin
           THEN Answer(q, Respond(DeleteRoute, user, circuitId, 403,
                                  "You can only delete your own circuits or you need admin rights"))
           ELSE Admit(q, DeleteRoute, user, circuitId, "deleteContent")

\* archiveWisdomCircuit, first statement: the circuit is read again, and the
\* method throws when it is gone
ArchiveWisdomCircuitSelect(q) ==
    LET rq == circuitRequests[q]
    IN  /\ rq.pc = "archiveSelect"
        /\ UNCHANGED <<tables, chat, accounts>>
        /\ IF IsSome(getWisdomCircuit(rq.circuitId))
           THEN /\ circuitRequests' = [circuitRequests EXCEPT ![q].pc = "archiveUpdate"]
                /\ UNCHANGED response
           ELSE Answer(q, Respond(ArchiveRoute, [id |-> rq.user], rq.circuitId,
                                  500, "Failed to archive circuit"))

\* the row an UPDATE ... RETURNING hands to res.json: none when no row matched
returnedRow(id) == IF IsSome(getWisdomCircuit(id)) THEN id ELSE 0

\* archiveWisdomCircuit, second statement, and the end of the route
ArchiveWisdomCircuitUpdate(q) ==
    LET rq == circuitRequests[q]
    IN  /\ rq.pc = "archiveUpdate"
        /\ setCircuitArchived(rq.circuitId, TRUE)
        /\ Answer(q, [Respond(ArchiveRoute, [id |-> rq.user], rq.circuitId, 200, "")
                         EXCEPT !.rowId = returnedRow(rq.circuitId)])
        /\ UNCHANGED <<chat, accounts>>

\* unarchiveWisdomCircuit and the end of the route
UnarchiveWisdomCircuit(q) ==
    LET rq == circuitRequests[q]
    IN  /\ rq.pc = "unarchive"
        /\ setCircuitArchived(rq.circuitId, FALSE)
        /\ Answer(q, [Respond(UnarchiveRoute, [id |-> rq.user], rq.circuitId, 200, "")
                         EXCEPT !.rowId = returnedRow(rq.circuitId)])
        /\ UNCHANGED <<chat, accounts>>

\* deleteWisdomCircuit, first statement
DeleteWisdomCircuitContent(q) ==
    LET rq == circuitRequests[q]
    IN  /\ rq.pc = "deleteContent"
        /\ deleteContentRows(rq.circuitId)
        /\ circuitRequests' = [circuitRequests EXCEPT ![q] =
              [@ EXCEPT !.pc = "deleteCircuit",
                        !.removed = {c.id : c \in {d \in circuitContent :
                                                     d.circuitId = rq.circuitId}}]]
        /\ UNCHANGED <<response, chat, accounts>>

\* deleteWisdomCircuit, second statement, and the end of the route: the row
\* is deleted and returned, or the statement fails on the foreign key, or it
\* deletes nothing and the method throws 'Circuit not found'
DeleteWisdomCircuitRow(q) ==
    LET rq == circuitRequests[q]
        Failed == Respond(DeleteRoute, [id |-> rq.user], rq.circuitId, 500,
                          "Failed to delete circuit")
    IN  /\ rq.pc = "deleteCircuit"
        /\ UNCHANGED <<chat, accounts>>
        /\ \/ /\ deleteCircuitRow(rq.circuitId)
              /\ Answer(q, [Respond(DeleteRoute, [id |-> rq.user], rq.circuitId,
                                    200, "")
                               EXCEPT !.rowId = rq.circuitId])
           \/ /\ \E c \in circuitContent : c.circuitId = rq.circuitId
              /\ Answer(q, Failed)
              /\ UNCHANGED tables
           \/ /\ ~IsSome(getWisdomCircuit(rq.circuitId))
              /\ \A c \in circuitContent : c.circuitId # rq.circuitId
              /\ Answer(q, Failed)
              /\ UNCHANGED tables

(***************************************************************************)
(* The life of a circuit: teachers, a student and an administrator create,  *)
(* archive, unarchive and delete circuits while text files are uploaded and *)
(* content is archived.                                                      *)
(***************************************************************************)
LifecycleUploads == {u \in Uploads : u.ext \in {".txt", ".exe"}}

NextLifecycle ==
    \/ \E user \in Requesters, body \in {ScenarioA, NoName} :
          PostWisdomCircuits(user, body)
    \/ \E user \in Requesters, circuitId \in CircuitIds, upload \in LifecycleUploads :
          PostCircuitContent(user, circuitId, upload, SpeechFailed)
    \/ \E user \in Requesters, id \in ContentIds : DeleteCircuitContent(user, id)
    \/ \E q \in RequestIds, user \in Requesters, circuitId \in CircuitIds :
          PostArchive(q, user, circuitId)
    \/ \E q \in RequestIds, user \in Requesters, circuitId \in CircuitIds :
          PostUnarchive(q, user, circuitId)
    \/ \E q \in RequestIds, user \in Requesters, circuitId \in CircuitIds :
          DeleteCircuit(q, user, circuitId)
    \/ \E q \in RequestIds : ArchiveWisdomCircuitSelect(q)
    \/ \E q \in RequestIds : ArchiveWisdomCircuitUpdate(q)
    \/ \E q \in RequestIds : UnarchiveWisdomCircuit(q)
    \/ \E q \in RequestIds : DeleteWisdomCircuitContent(q)
    \/ \E q \in RequestIds : DeleteWisdomCircuitRow(q)

LifecycleSpec == Init /\ [][NextLifecycle]_vars

(***************************************************************************)
(* DatabaseStorage: users, subscriptions and payments.  The columns kept    *)
(* are the ones the routes below read or the schema constrains:             *)
(* users.email is UNIQUE, subscriptions.user_id and payments.user_id        *)
(* REFERENCE users(id), payments.stripe_payment_id is NOT NULL, and         *)
(* subscriptions.stripe_subscription_id is neither unique nor required.     *)
(***************************************************************************)
\* SELECT ... FROM users WHERE email = :email: the rows that match; the
\* method returns the first of them, undefined when there is none
getUserByEmail(email) == {u \in users : u.email = email}

\* the insert into a table whose email column is not unique
createUser_NoUniqueEmail(insertUser) ==
    /\ Cardinality(users) < MaxUsers
    /\ users' = users \cup {[id |-> Cardinality(users) + 1, email |-> insertUser.email]}

\* INSERT INTO users ... RETURNING, when it inserts: the statement fails
\* while a row has the email
createUser(insertUser) ==
    /\ Cardinality(users) < MaxUsers
    /\ \A u \in users : u.email # insertUser.email
    /\ users' = users \cup {[id |-> Cardinality(users) + 1, email |-> insertUser.email]}

\* INSERT INTO subscriptions ... RETURNING, when it inserts
createSubscription(sub) ==
    /\ Cardinality(subscriptions) < MaxSubscriptions
    /\ \E u \in users : u.id = sub.userId
    /\ subscriptions' = subscriptions \cup
          {[id |-> Cardinality(subscriptions) + 1, userId |-> sub.userId,
            stripeSubscriptionId |-> sub.stripeSubscriptionId,
            status |-> sub.status]}

\* INSERT INTO payments ... RETURNING, when it inserts
createPayment(payment) ==
    /\ Cardinality(payments) < MaxPayments
    /\ \E u \in users : u.id = payment.userId
    /\ IsSome(payment.stripePaymentId)
    /\ payments' = payments \cup
          {[id |-> Cardinality(payments) + 1, userId |-> payment.userId,
            stripePaymentId |-> Get(payment.stripePaymentId),
            status |-> payment.status]}

\* SELECT ... FROM subscriptions WHERE stripe_subscription_id = :stripeId
\* (no ORDER BY): the rows that match; the method returns the first of them
getSubscriptionByStripeId(stripeId) ==
    {sub \in subscriptions : sub.stripeSubscriptionId = stripeId}

\* UPDATE subscriptions SET status = :status WHERE id = :id
updateSubscriptionStatus(id, status) ==
    subscriptions' =
        {IF sub.id = id THEN [sub EXCEPT !.status = status] ELSE sub :
            sub \in subscriptions}

(***************************************************************************)
(* POST /api/register.  The handler awaits getUserByEmail, then the hash    *)
(* of the password and createUser: the insert is a later step than the      *)
(* check.                                                                    *)
(***************************************************************************)
RegisterRoute == "POST /api/register"

Emails == {"ada@school.edu", "bob@school.edu"}

\* req.body of POST /api/register
RegistrationBodies == {[email |-> e, password |-> "secret"] : e \in Emails}

\* what req.login hands to its callback
LoginResults == {"ok", "error"}

PostRegister(q, body) ==
    /\ registrations[q].pc = "idle"
    /\ \A p \in 1 .. (q - 1) : registrations[p].pc # "idle"
    /\ registrations' = [registrations EXCEPT ![q] =
          [pc |-> "getUserByEmail", email |-> body.email]]
    /\ UNCHANGED <<tables, chat, response, circuitRequests, users, subscriptions,
                   payments, webhook>>

RegisterGetUserByEmail(q) ==
    LET rg == registrations[q]
    IN  /\ rg.pc = "getUserByEmail"
        /\ IF getUserByEmail(rg.email) # {}
           THEN /\ response' = Respond(RegisterRoute, [id |-> 0], 0, 400,
                                       "Email already exists")
                /\ registrations' = [registrations EXCEPT ![q] = IdleRegistration]
           ELSE /\ registrations' = [registrations EXCEPT ![q].pc = "createUser"]
                /\ UNCHANGED response
        /\ UNCHANGED <<tables, chat, circuitRequests, users, subscriptions,
                       payments, webhook>>

\* createUser and the end of the route: the user is stored and logged in
\* (201, or 500 when the login fails), or the insert fails and the catch
\* block answers 500
RegisterCreateUser(q, login) ==
    LET rg == registrations[q]
    IN  /\ rg.pc = "createUser"
        /\ \/ /\ createUser([email |-> rg.email])
              /\ response' =
                    [Respond(RegisterRoute, [id |-> Cardinality(users) + 1], 0,
                             IF login = "ok" THEN 201 ELSE 500,
                             IF login = "ok" THEN ""
                             ELSE "Error logging in after registration")
                        EXCEPT !.rowId = Cardinality(users) + 1]
           \/ /\ \E u \in users : u.email = rg.email
              /\ login = "ok"
              /\ UNCHANGED users
              /\ response' = Respond(RegisterRoute, [id |-> 0], 0, 500,
                                     "Registration failed")
        /\ registrations' = [registrations EXCEPT ![q] = IdleRegistration]
        /\ UNCHANGED <<tables, chat, circuitRequests, subscriptions, payments,
                       webhook>>

(***************************************************************************)
(* POST /api/webhook/stripe and stripeService.handleWebhook.  The signature *)
(* is verified and the event dispatched on its type before the first await; *)
(* each storage call after that is a step.  No transaction is opened.       *)
(***************************************************************************)
WebhookRoute == "POST /api/webhook/stripe"

Checkout == "checkout.session.completed"
SubscriptionUpdated == "customer.subscription.updated"

\* event.data.object of the three kinds of event: a checkout session
\* (metadata.userId and payment_intent may be absent), a subscription, and
\* an object of a type the switch has no case for
StripeEvents ==
    {[NoEvent EXCEPT !.type = Checkout, !.mode = mode, !.userId = userId,
                     !.subscription = "sub_1", !.paymentIntent = paymentIntent] :
        mode \in {"subscription", "payment"},
        userId \in {Some("1"), None},
        paymentIntent \in {Some("pi_1"), None}}
    \cup {[NoEvent EXCEPT !.type = SubscriptionUpdated, !.id = id, !.status = status] :
            id \in {"sub_1", "sub_2"}, status \in {"active", "canceled"}}
    \cup {[NoEvent EXCEPT !.type = "invoice.paid"]}

\* the stripe-signature header: absent, the signature of the payload, or not
Signatures == {None, Some("whsec_ok"), Some("forged")}

\* parseInt(s, 10) of a string of one digit
parseInt(s) == CHOOSE d \in 0 .. 9 : SubSeq("0123456789", d + 1, d + 1) = s

\* parseInt(session.metadata?.userId || '0', 10)
sessionUserId(event) == parseInt(Get(OrElse(event.userId, Some("0"))))

\* subscription.status === 'active' ? 'active' : 'past_due'
subscriptionStatus(event) == IF event.status = "active" THEN "active" ELSE "past_due"

Received == Respond(WebhookRoute, [id |-> 0], 0, 200, "received")
WebhookError == Respond(WebhookRoute, [id |-> 0], 0, 400, "Webhook error")

\* the route and handleWebhook up to its first await
PostWebhook(signature, event) ==
    /\ webhook.pc = "idle"
    /\ UNCHANGED <<tables, chat, circuitRequests, users, subscriptions, payments,
                   registrations>>
    /\ IF ~IsSome(signature)
       THEN /\ response' = Respond(WebhookRoute, [id |-> 0], 0, 400,
                                   "Missing stripe-signature header")
            /\ UNCHANGED webhook
       ELSE IF signature # Some("whsec_ok")
       THEN response' = WebhookError /\ UNCHANGED webhook
       ELSE IF event.type = Checkout
       THEN /\ webhook' = [IdleWebhook EXCEPT
                              !.pc = IF event.mode = "subscription"
                                     THEN "createSubscription" ELSE "createPayment",
                              !.event = event]
            /\ UNCHANGED response
       ELSE IF event.type = SubscriptionUpdated
       THEN /\ webhook' = [IdleWebhook EXCEPT !.pc = "getSubscriptionByStripeId",
                                              !.event = event]
            /\ UNCHANGED response
       ELSE response' = Received /\ UNCHANGED webhook

\* await storage.createSubscription(...): a failed insert is thrown to the
\* catch block of the route
HandleCreateSubscription ==
    /\ webhook.pc = "createSubscription"
    /\ \/ /\ createSubscription([userId |-> sessionUserId(webhook.event),
                                 stripeSubscriptionId |-> webhook.event.subscription,
                                 status |-> "active"])
          /\ webhook' = [webhook EXCEPT
                            !.pc = "createPayment",
                            !.madeSubscriptions = {Cardinality(subscriptions) + 1}]
          /\ UNCHANGED response
       \/ /\ \A u \in users : u.id # sessionUserId(webhook.event)
          /\ UNCHANGED subscriptions
          /\ webhook' = IdleWebhook
          /\ response' = WebhookError
    /\ UNCHANGED <<tables, chat, circuitRequests, users, payments, registrations>>

\* await storage.createPayment(...) and the end of the route
HandleCreatePayment ==
    /\ webhook.pc = "createPayment"
    /\ \/ /\ createPayment([userId |-> sessionUserId(webhook.event),
                            stripePaymentId |-> webhook.event.paymentIntent,
                            status |-> "succeeded"])
          /\ response' = Received
       \/ /\ \/ \A u \in users : u.id # sessionUserId(webhook.event)
             \/ ~IsSome(webhook.event.paymentIntent)
          /\ UNCHANGED payments
          /\ response' = WebhookError
    /\ webhook' = IdleWebhook
    /\ UNCHANGED <<tables, chat, circuitRequests, users, subscriptions, registrations>>

\* await storage.getSubscriptionByStripeId(subscriptionId)
HandleGetSubscriptionByStripeId ==
    /\ webhook.pc = "getSubscriptionByStripeId"
    /\ LET rows == getSubscriptionByStripeId(webhook.event.id)
       IN  IF rows = {}
           THEN webhook' = IdleWebhook /\ response' = Received
           ELSE /\ \E dbSubscription \in rows :
                      webhook' = [webhook EXCEPT !.pc = "updateSubscriptionStatus",
                                                 !.found = dbSubscription.id]
                /\ UNCHANGED response
    /\ UNCHANGED <<tables, chat, circuitRequests, users, subscriptions, payments,
                   registrations>>

\* await storage.updateSubscriptionStatus(dbSubscription.id, status) and the
\* end of the route
HandleUpdateSubscriptionStatus ==
    /\ webhook.pc = "updateSubscriptionStatus"
    /\ updateSubscriptionStatus(webhook.found, subscriptionStatus(webhook.event))
    /\ webhook' = IdleWebhook
    /\ response' = Received
    /\ UNCHANGED <<tables, chat, circuitRequests, users, payments, registrations>>

\* registrations arriving in any order while Stripe delivers events
NextAccounts ==
    \/ \E q \in RequestIds, body \in RegistrationBodies : PostRegister(q, body)
    \/ \E q \in RequestIds : RegisterGetUserByEmail(q)
    \/ \E q \in RequestIds, login \in LoginResults : RegisterCreateUser(q, login)
    \/ \E signature \in Signatures, event \in StripeEvents : PostWebhook(signature, event)
    \/ HandleCreateSubscription
    \/ HandleCreatePayment
    \/ HandleGetSubscriptionByStripeId
    \/ HandleUpdateSubscriptionStatus

AccountsSpec == Init /\ [][NextAccounts]_vars

(***************************************************************************)
(* Reading a composed prompt back: its lines, and the sections the          *)
(* properties below are about.                                              *)
(***************************************************************************)
NewlinePositions(s) == {i \in 1 .. Len(s) : SubSeq(s, i, i) = "\n"}

\* the members of a set of numbers, smallest first
RECURSIVE Ascending(_)
Ascending(S) ==
    IF S = {} THEN <<>>
    ELSE LET m == CHOOSE x \in S : \A y \in S : x <= y
         IN  <<m>> \o Ascending(S \ {m})

\* String.prototype.split('\n')
splitLines(s) ==
    LET pos == Ascending(NewlinePositions(s))
        n == Len(pos)
    IN  [k \in 1 .. (n + 1) |->
            SubSeq(s, IF k = 1 THEN 1 ELSE pos[k - 1] + 1,
                      IF k = n + 1 THEN Len(s) ELSE pos[k] - 1)]

startsWith(s, prefix) ==
    Len(s) >= Len(prefix) /\ SubSeq(s, 1, Len(prefix)) = prefix

Range(f) == {f[i] : i \in DOMAIN f}

\* the turn has composed its prompt and has ended
Composed(r) == chat[r].pc = "done" /\ IsSome(chat[r].systemPrompt)

PromptLines(r) == splitLines(Get(chat[r].systemPrompt))

\* the lines after the preamble and before the first blank line
DirectiveBlock(lines) ==
    LET blank == CHOOSE k \in DOMAIN lines :
                    lines[k] = "" /\ \A j \in 1 .. (k - 1) : lines[j] # ""
    IN  SubSeq(lines, 2, blank - 1)

\* the text between the "Knowledge Base:" header and the blank line before
\* the closing "Remember to:" block
KnowledgeBaseSection(lines) ==
    LET header == CHOOSE k \in DOMAIN lines :
                     lines[k] = "Knowledge Base:"
                       /\ \A j \in 1 .. (k - 1) : lines[j] # "Knowledge Base:"
        closing == CHOOSE k \in DOMAIN lines :
                      lines[k] = "Remember to:"
                        /\ \A j \in (k + 1) .. Len(lines) : lines[j] # "Remember to:"
    IN  join(SubSeq(lines, header + 1, closing - 2), "\n")

Placeholder == "No specific content uploaded yet."

\* the rows of a set, oldest upload first
OldestFirst(rows) ==
    CHOOSE s \in Orderings(rows) :
        \A i, j \in DOMAIN s : i < j => s[i].uploadedAt < s[j].uploadedAt

(***************************************************************************)
(* C1.  A chat turn whose content read found no active item composes a      *)
(* prompt whose knowledge-base section is the placeholder sentence, never   *)
(* the empty string.                                                        *)
(***************************************************************************)
C1_EmptyKnowledgeBaseIsPlaceholder ==
    \A r \in ChatIds :
        Composed(r) /\ chat[r].content = <<>> =>
            KnowledgeBaseSection(PromptLines(r)) = Placeholder

(***************************************************************************)
(* C2.  The composed prompt lists the excerpts of the active items in       *)
(* ascending upload time: an item uploaded at t1 comes before an item       *)
(* uploaded at t2 > t1.                                                     *)
(***************************************************************************)
C2_ExcerptsOldestFirst ==
    \A r \in ChatIds :
        Composed(r) =>
            /\ \A i, j \in DOMAIN chat[r].content :
                  i < j => chat[r].content[i].uploadedAt < chat[r].content[j].uploadedAt
            /\ KnowledgeBaseSection(PromptLines(r)) =
                  join(processedContent(OldestFirst(Range(chat[r].content))), "\n")

(***************************************************************************)
(* C3.  Once an item has been archived, every content read made afterwards  *)
(* for its circuit leaves it out, so the prompt composed from that read has *)
(* no excerpt of it; and a turn that has ended is never changed again.      *)
(***************************************************************************)
C3_ArchivedLeftOut ==
    \A r \in ChatIds :
        chat[r].contentReads > 0 =>
            /\ \A c \in circuitContent :
                  ( /\ c.circuitId = chat[r].circuitId
                    /\ archivedAt[c.id] > 0
                    /\ archivedAt[c.id] <= chat[r].contentReadAt )
                  => \A i \in DOMAIN chat[r].content : chat[r].content[i].id # c.id
            /\ Composed(r) =>
                  KnowledgeBaseSection(PromptLines(r)) =
                      join(processedContent(chat[r].content), "\n")

\* C3, second half: a turn that has ended keeps its prompt and its response
C3_ReturnedUnchanged ==
    \A r \in ChatIds : chat[r].pc = "done" => chat'[r] = chat[r]

\* C3: an archived item is left out of every later read and prompt, and
\* ended turns stay as they were returned
C3_ArchiveTakesEffect == []C3_ArchivedLeftOut /\ [][C3_ReturnedUnchanged]_vars

\* C3: a turn that ended before the archive kept the item's excerpt, and a
\* turn that read afterwards has only the other item
C3_Witness ==
    /\ Composed(1) /\ Composed(2)
    /\ chat[1].circuitId = chat[2].circuitId
    /\ \E c \in circuitContent :
          /\ c.isArchived
          /\ c.circuitId = chat[1].circuitId
          /\ chat[1].contentReadAt < archivedAt[c.id]
          /\ archivedAt[c.id] <= chat[2].contentReadAt
          /\ \E i \in DOMAIN chat[1].content : chat[1].content[i].id = c.id
          /\ \A i \in DOMAIN chat[2].content : chat[2].content[i].id # c.id
          /\ Len(chat[2].content) = 1

(***************************************************************************)
(* C4.  Two compositions for the same circuit with no write between their   *)
(* content reads give byte-identical prompts.                               *)
(***************************************************************************)
C4_ComposeTwiceIdentical ==
    \A r1, r2 \in ChatIds :
        ( /\ Composed(r1) /\ Composed(r2)
          /\ chat[r1].circuitId = chat[r2].circuitId
          /\ chat[r1].contentReadAt = chat[r2].contentReadAt )
        => chat[r1].systemPrompt = chat[r2].systemPrompt

(***************************************************************************)
(* C9.  The knowledge-base section has one block per item read, in the      *)
(* order read: the title, ":" and a newline, then the extracted content,    *)
(* or the description when the content is empty, or nothing when both are   *)
(* empty.                                                                   *)
(***************************************************************************)
NonEmpty(o) == IsSome(o) /\ Get(o) # ""

ExpectedExcerpt(c) ==
    c.title \o ":\n" \o
        (IF NonEmpty(c.content) THEN Get(c.content)
         ELSE IF NonEmpty(c.description) THEN Get(c.description)
         ELSE "")

\* C9: each block of the knowledge-base section is the title and the
\* content, else the description, else nothing
C9_ExcerptFallback ==
    \A r \in ChatIds :
        Composed(r) =>
            /\ Len(Get(Get(chat[r].context).uploadedContent)) = Len(chat[r].content)
            /\ KnowledgeBaseSection(PromptLines(r)) =
                  join([i \in DOMAIN chat[r].content |->
                           ExpectedExcerpt(chat[r].content[i])], "\n")

\* a prompt composed from an item with content, an item with a description
\* only, or an item with neither
C9_Witness ==
    \E r \in ChatIds :
        /\ Composed(r)
        /\ Len(chat[r].content) = 2
        /\ ~NonEmpty(chat[r].content[1].content)
        /\ ~NonEmpty(chat[r].content[1].description)
        /\ ~NonEmpty(chat[r].content[2].content)
        /\ NonEmpty(chat[r].content[2].description)
        /\ KnowledgeBaseSection(PromptLines(r)) =
              chat[r].content[1].title \o ":\n\n"
                \o chat[r].content[2].title \o ":\n"
                \o Get(chat[r].content[2].description)

(***************************************************************************)
(* C10.  A chat turn that names a circuit id no circuit has ends with 404   *)
(* "Circuit not found": it composes no prompt, never reads the content      *)
(* store and never calls the model boundary.                                *)
(***************************************************************************)
C10_UnknownCircuitNotFound ==
    \A r \in ChatIds :
        /\ ( chat[r].pc # "idle" /\ chat[r].message # ""
               /\ chat[r].circuitId > circuitSerial )
           => /\ chat[r].pc \in {"getWisdomCircuit", "done"}
              /\ chat[r].pc = "done" => chat[r].status = 404
              /\ chat[r].systemPrompt = None
              /\ chat[r].context = None
              /\ chat[r].contentReads = 0
              /\ chat[r].modelCalls = 0
        /\ chat[r].status = 404
           => /\ chat[r].response = "Circuit not found"
              /\ chat[r].systemPrompt = None
              /\ chat[r].contentReads = 0
              /\ chat[r].modelCalls = 0

\* C10: a turn for an id beyond every serial value ended with 404
C10_Witness ==
    \E r \in ChatIds :
        /\ chat[r].pc = "done"
        /\ chat[r].circuitId > circuitSerial
        /\ chat[r].status = 404
        /\ circuitSerial = MaxCircuits

(***************************************************************************)
(* The directive sentences of a composed prompt.                            *)
(***************************************************************************)
TeachingLabel == "Teaching Approach: Utilize "
HomeworkLabel == "Homework Guidance: "
ResponseLabel == "Communication Style: "
StateLabel == "State Alignment: Follow "

\* the collections the prompt of turn r was composed from
TagsOf(r) == Get(chat[r].circuit)

\* every rearrangement of an array
Rearrangements(arr) ==
    {[i \in DOMAIN arr |-> arr[f[i]]] :
        f \in {g \in [DOMAIN arr -> DOMAIN arr] :
                  \A i, j \in DOMAIN arr : i # j => g[i] # g[j]}}

\* the clauses of the tags a table knows, in the order of the array, joined
\* with ", "
RECURSIVE ClausesInInputOrder(_, _, _)
ClausesInInputOrder(arr, table, k) ==
    IF k = 0 THEN ""
    ELSE LET rest == ClausesInInputOrder(arr, table, k - 1)
         IN  IF arr[k] \notin DOMAIN table THEN rest
             ELSE IF rest = "" THEN table[arr[k]]
             ELSE rest \o ", " \o table[arr[k]]

TeachingTable == [t \in TeachingStyleTags |-> teachingStyleClause(t)]
HomeworkTable == [t \in HomeworkPolicyTags |-> homeworkClause(t)]
ResponseTable == [t \in ResponseTypeTags |-> responseClause(t)]

(***************************************************************************)
(* C5 as claimed.  The sentence of each collection depends only on the set  *)
(* of its tags: every rearrangement of the collection gives the sentence    *)
(* that stands in the prompt.                                               *)
(***************************************************************************)
C5_SentenceIgnoresTagOrder ==
    Composed(1) =>
        LET lines == PromptLines(1)
        IN  /\ \A p \in Rearrangements(TagsOf(1).teachingStyles) :
                  lines[2] = TeachingLabel \o teachingStyleDesc(p) \o "."
            /\ \A p \in Rearrangements(TagsOf(1).homeworkPolicies) :
                  lines[3] = HomeworkLabel \o homeworkApproach(p) \o "."
            /\ \A p \in Rearrangements(TagsOf(1).responseTypes) :
                  lines[4] = ResponseLabel \o responseStyle(p) \o "."

(***************************************************************************)
(* C5 as amended.  The sentence of each collection is a function of the     *)
(* array of tags: its comma-joined clauses are those of the tags the table  *)
(* knows, in the order of the array.                                        *)
(***************************************************************************)
C5_SentenceFollowsInputOrder ==
    Composed(1) =>
        LET lines == PromptLines(1)
            c == TagsOf(1)
        IN  /\ lines[2] = TeachingLabel
                 \o ClausesInInputOrder(c.teachingStyles, TeachingTable,
                                        Len(c.teachingStyles)) \o "."
            /\ lines[3] = HomeworkLabel
                 \o ClausesInInputOrder(c.homeworkPolicies, HomeworkTable,
                                        Len(c.homeworkPolicies)) \o "."
            /\ lines[4] = ResponseLabel
                 \o ClausesInInputOrder(c.responseTypes, ResponseTable,
                                        Len(c.responseTypes)) \o "."

\* two homework tags given against the order of the table
C5_Witness ==
    /\ Composed(1)
    /\ TagsOf(1).homeworkPolicies = <<"no_solutions", "guide">>
    /\ PromptLines(1)[3] =
          "Homework Guidance: encourage independent problem-solving, provide guidance without direct solutions."

(***************************************************************************)
(* C6 as claimed.  A circuit whose three collections are empty gets the     *)
(* preamble only: no teaching-style, homework or response-style sentence.   *)
(***************************************************************************)
AllEmpty(c) ==
    c.teachingStyles = <<>> /\ c.homeworkPolicies = <<>> /\ c.responseTypes = <<>>

C6_EmptyCollectionsPreambleOnly ==
    ( Composed(1) /\ AllEmpty(TagsOf(1)) ) =>
        \A line \in Range(DirectiveBlock(PromptLines(1))) :
            /\ ~startsWith(line, TeachingLabel)
            /\ ~startsWith(line, HomeworkLabel)
            /\ ~startsWith(line, ResponseLabel)

(***************************************************************************)
(* C6 as amended.  A circuit whose three collections are empty is composed  *)
(* without an error, and its prompt still has the three sentences, each     *)
(* with an empty clause list.                                               *)
(***************************************************************************)
C6_EmptyCollectionsEmptyClauses ==
    /\ ( chat[1].modelCalls > 0 /\ AllEmpty(TagsOf(1)) ) => Composed(1)
    /\ ( Composed(1) /\ AllEmpty(TagsOf(1)) ) =>
          SubSeq(PromptLines(1), 2, 4) =
              << "Teaching Approach: Utilize .",
                 "Homework Guidance: .",
                 "Communication Style: ." >>

\* C6: a successful turn for a circuit with three empty collections
C6_Witness ==
    Composed(1) /\ AllEmpty(TagsOf(1)) /\ chat[1].status = 200

(***************************************************************************)
(* C7.  A tag no table knows adds no clause and no error: the sentence in   *)
(* the prompt is the sentence of the collection without its unknown tags.   *)
(***************************************************************************)
Known(arr, tags) == SelectSeq(arr, LAMBDA t : t \in tags)

\* C7: the three sentences of the prompt are those of the known tags alone
C7_UnknownTagsDropped ==
    /\ chat[1].modelCalls > 0 => Composed(1)
    /\ Composed(1) =>
          LET lines == PromptLines(1)
              c == TagsOf(1)
          IN  /\ lines[2] = TeachingLabel
                   \o teachingStyleDesc(Known(c.teachingStyles, TeachingStyleTags)) \o "."
              /\ lines[3] = HomeworkLabel
                   \o homeworkApproach(Known(c.homeworkPolicies, HomeworkPolicyTags)) \o "."
              /\ lines[4] = ResponseLabel
                   \o responseStyle(Known(c.responseTypes, ResponseTypeTags)) \o "."

\* C7: an unknown tag between two known ones leaves their two clauses
C7_Witness ==
    /\ Composed(1)
    /\ TagsOf(1).teachingStyles = <<"authority", UnknownTag, "hybrid">>
    /\ PromptLines(1)[2] =
          "Teaching Approach: Utilize direct and structured instruction, flexible combination of teaching methods."

(***************************************************************************)
(* C8.  The prompt has exactly four directive sentences, one per            *)
(* collection, in the order teaching style, homework policy, response       *)
(* style, state standard, whatever the number of tags of each collection.   *)
(***************************************************************************)
C8_FourSentencesInOrder ==
    Composed(1) =>
        LET block == DirectiveBlock(PromptLines(1))
        IN  /\ Len(block) = 4
            /\ startsWith(block[1], TeachingLabel)
            /\ startsWith(block[2], HomeworkLabel)
            /\ startsWith(block[3], ResponseLabel)
            /\ startsWith(block[4], StateLabel)

\* C8: collections of two, zero and one tags
C8_Witness ==
    /\ Composed(1)
    /\ Len(TagsOf(1).teachingStyles) = 2
    /\ Len(TagsOf(1).homeworkPolicies) = 0
    /\ Len(TagsOf(1).responseTypes) = 1

(***************************************************************************)
(* Properties of the content routes (ContentSpec).                          *)
(***************************************************************************)
TranscribeRoute == "POST /api/transcribe"
UploadRoute == "POST /api/circuit-content/:circuitId"
ArchiveContentRoute == "DELETE /api/circuit-content/:id"

\* req.user of the request a response answers
Requester(id) == CHOOSE u \in Requesters : u.id = id

\* the rows a step inserted
Inserted == {c \in circuitContent' : \A d \in circuitContent : d.id # c.id}

\* C11: a transcription request whose speech-to-text call failed ends with an
\* error and creates no content item; a transcript item is created only by a
\* transcription request whose call had returned successfully.
C11_FailedCallAnswer ==
    ( response.route = TranscribeRoute /\ response.boundary = "failed" )
        => response.status >= 400 /\ response.rowId = 0

C11_FailedCallStep ==
    /\ ( response'.route = TranscribeRoute /\ response'.boundary = "failed" )
          => circuitContent' = circuitContent
    /\ \A c \in Inserted :
          c.category = "transcript"
             => /\ response'.route = TranscribeRoute
                /\ response'.boundary = "ok"
                /\ response'.rowId = c.id

Storable(rsp) ==
    /\ rsp.route = UploadRoute
    /\ Requester(rsp.user).isTeacher
    /\ IsSome(getWisdomCircuit(rsp.target))

\* C12: when the extraction boundary does not answer with success, the upload
\* of a .pdf still succeeds: it answers success and creates exactly one
\* content item, for the circuit named, whose content is the empty string.
C12_FailedExtractionStep ==
    ( Storable(response') /\ response'.boundary = "failed" )
        => /\ response'.status = 200
           /\ Cardinality(Inserted) = 1
           /\ \A c \in Inserted :
                 /\ c.id = response'.rowId
                 /\ c.circuitId = response'.target
                 /\ c.fileType = "pdf"
                 /\ c.content = Some("")

\* C12: pdf upload survives a failed extraction
C12_PdfUploadSurvivesFailedExtraction == [][C12_FailedExtractionStep]_vars

\* C12: a pdf was stored with empty content after the boundary failed
C12_Witness ==
    /\ response.route = UploadRoute
    /\ response.boundary = "failed"
    /\ response.status = 200
    /\ \E c \in circuitContent :
          c.id = response.rowId /\ c.fileType = "pdf" /\ c.content = Some("")

OfficeExtensions == {".doc", ".docx", ".ppt", ".pptx"}

\* C13: the upload of a .doc, .docx, .ppt or .pptx file never calls the
\* extraction boundary and never fails: it answers success, and the item it
\* stores has the empty string as content.
C13_OfficeUploadStep ==
    ( response'.route = UploadRoute /\ response'.ext \in OfficeExtensions )
        => /\ response'.boundary = "none"
           /\ Storable(response')
                 => /\ response'.status = 200
                    /\ Cardinality(Inserted) = 1
                    /\ \A c \in Inserted :
                          c.id = response'.rowId /\ c.content = Some("")

\* C13: office documents are stored unextracted
C13_OfficeUploadStoredUnextracted == [][C13_OfficeUploadStep]_vars

\* C13: an office document was stored, with no call and empty content
C13_Witness ==
    /\ response.route = UploadRoute
    /\ response.ext \in {".doc", ".docx"}
    /\ response.status = 200
    /\ \E c \in circuitContent : c.id = response.rowId /\ c.content = Some("")
    /\ \E c \in circuitContent : c.fileType = "pptx" /\ c.content = Some("")

SupportedExtensions == {".txt", ".pdf"} \cup OfficeExtensions

\* C14: an upload whose extension is not .txt, .pdf, .doc, .docx, .ppt or
\* .pptx is rejected before any extraction: the boundary is not called and
\* no content item is created.
C14_UnsupportedUploadStep ==
    ( response'.route = UploadRoute
         /\ toLowerCase(response'.ext) \notin SupportedExtensions )
        => /\ response'.status \in {400, 403}
           /\ Requester(response'.user).isTeacher => response'.status = 400
           /\ response'.boundary = "none"
           /\ response'.rowId = 0
           /\ circuitContent' = circuitContent

\* C14: unsupported extensions are rejected
C14_UnsupportedExtensionRejected == [][C14_UnsupportedUploadStep]_vars

\* C14: a teacher's .exe for a circuit that exists was refused
C14_Witness ==
    /\ Storable(response)
    /\ response.ext = ".exe"
    /\ response.status = 400
    /\ response.message = "Unsupported file type"

\* C20: a content upload that names an unknown circuit id, and a content
\* archive that names an unknown content id, are answered with a not-found
\* error (404), never with success and never with a generic server failure.
C20_UnknownIdStep ==
    /\ ( response'.route = UploadRoute
            /\ Requester(response'.user).isTeacher
            /\ toLowerCase(response'.ext) \in SupportedExtensions
            /\ ~IsSome(getWisdomCircuit(response'.target)) )
          => response'.status = 404
    /\ ( response'.route = ArchiveContentRoute
            /\ Requester(response'.user).isTeacher
            /\ \A c \in circuitContent : c.id # response'.target )
          => response'.status = 404

\* C20: unknown ids are reported as not found
C20_UnknownIdReportedNotFound == [][C20_UnknownIdStep]_vars

GradeBands == {"K", "1", "2", "3", "4", "5", "6", "7", "8", "9", "10", "11", "12"}

\* C15: every stored circuit has a non-empty teaching-style set, a non-empty
\* homework-policy set, a non-empty response-type set and a grade that is one
\* of the 13 bands, whatever the creation request carried.
C15_StoredCircuitWellFormed ==
    \A c \in wisdomCircuits :
        /\ Len(c.teachingStyles) > 0
        /\ Len(c.homeworkPolicies) > 0
        /\ Len(c.responseTypes) > 0
        /\ c.grade \in GradeBands

(***************************************************************************)
(* Properties of the life of a circuit (LifecycleSpec).                     *)
(***************************************************************************)
\* the content rows, and the circuits, a step removed
RemovedContent == {c \in circuitContent : \A d \in circuitContent' : d.id # c.id}
RemovedCircuits == {w \in wisdomCircuits : \A v \in wisdomCircuits' : v.id # w.id}

\* C16: no content item names a circuit that does not exist
C16_NoDanglingContent ==
    \A c \in circuitContent : \E w \in wisdomCircuits : w.id = c.circuitId

\* C16: a circuit row is removed only when no content row names it
C16_ContentFirstStep ==
    \A w \in RemovedCircuits : \A c \in circuitContent : c.circuitId # w.id

\* C16: deleting a circuit removes its content items first and then the
\* circuit; under every interleaving of the deletion with uploads to the
\* same circuit, no content item ever names a circuit that no longer exists.
C16_ContentNeverOutlivesCircuit ==
    []C16_NoDanglingContent /\ [][C16_ContentFirstStep]_vars

\* C16: an upload arrived between the two statements of a deletion: the
\* deletion had removed the circuit's rows, found the new row, and failed
C16_Witness ==
    /\ response.route = DeleteRoute
    /\ response.status = 500
    /\ contentSerial > Cardinality(circuitContent)
    /\ \E c \in circuitContent : c.circuitId = response.target
    /\ IsSome(getWisdomCircuit(response.target))

\* C17: a content archive request keeps every row, changing at most the
\* archived flag of the row it names
C17_ArchiveKeepsRowStep ==
    ( response' # response /\ response'.route = ArchiveContentRoute )
        => /\ RemovedContent = {}
           /\ \A c \in circuitContent :
                 \/ c \in circuitContent'
                 \/ /\ c.id = response'.target
                    /\ [c EXCEPT !.isArchived = TRUE] \in circuitContent'

\* C17: content rows are removed only by the first statement of the deletion
\* of the circuit they belong to
C17_RemovedByDeletionStep ==
    RemovedContent # {}
        => \E q \in RequestIds :
              /\ circuitRequests[q].pc = "deleteContent"
              /\ circuitRequests'[q].pc = "deleteCircuit"
              /\ \A c \in RemovedContent : c.circuitId = circuitRequests[q].circuitId

\* C17: archiving a content item only sets its archived flag, the row still
\* exists afterwards, and the only operation that removes content rows is the
\* deletion of their owning circuit.
C17_ArchiveIsSoftDelete ==
    [][C17_ArchiveKeepsRowStep /\ C17_RemovedByDeletionStep]_vars

\* C17: a row was archived and is still there
C17_Witness ==
    /\ response.route = ArchiveContentRoute
    /\ response.status = 200
    /\ \E c \in circuitContent : c.id = response.target /\ c.isArchived

\* the owner of a circuit that exists
OwnerOf(circuitId) == Get(getWisdomCircuit(circuitId)).teacherId

\* a request a route has let through to its storage call
InFlight(rq) == rq.pc # "idle"

OwnerOnly(rq) == rq.user = OwnerOf(rq.circuitId)

OwnerOrAdminDeleting(rq) ==
    \/ rq.user = OwnerOf(rq.circuitId)
    \/ rq.route = DeleteRoute /\ Requester(rq.user).isAdmin

\* the circuits a step changed or removed
TouchedCircuits == {w \in wisdomCircuits : w \notin wisdomCircuits'}

\* the storage calls of a step are those of a request in flight for that circuit
ByRequestInFlight ==
    /\ \A w \in TouchedCircuits :
          \E q \in RequestIds :
             InFlight(circuitRequests[q]) /\ circuitRequests[q].circuitId = w.id
    /\ \A c \in RemovedContent :
          \E q \in RequestIds :
             InFlight(circuitRequests[q])
                /\ circuitRequests[q].circuitId = c.circuitId

\* a step answered an archive, unarchive or delete request with a refusal
Refused ==
    /\ response' # response
    /\ response'.route \in {ArchiveRoute, UnarchiveRoute, DeleteRoute}
    /\ response'.status \in {403, 404}

\* C18: an archive, unarchive or delete request reaches its storage call only
\* when the requester is the circuit's owner
C18_OwnerOnlyStep ==
    /\ \A q \in RequestIds :
          ( ~InFlight(circuitRequests[q]) /\ InFlight(circuitRequests'[q]) )
              => OwnerOnly(circuitRequests'[q])
    /\ ByRequestInFlight
    /\ Refused => UNCHANGED <<wisdomCircuits, circuitContent>>

\* C18: a circuit is archived, unarchived or deleted only by its owner: every
\* such request by a requester whose id differs from the circuit's teacherId
\* is rejected and leaves the circuit and its content unchanged.
C18_MutatedOnlyByOwner == [][C18_OwnerOnlyStep]_vars

\* C18, amended: the same, except that deletion is also open to an
\* administrator
C18_OwnerOrAdminStep ==
    /\ \A q \in RequestIds :
          ( ~InFlight(circuitRequests[q]) /\ InFlight(circuitRequests'[q]) )
              => OwnerOrAdminDeleting(circuitRequests'[q])
    /\ ByRequestInFlight
    /\ Refused => UNCHANGED <<wisdomCircuits, circuitContent>>

\* C18, amended: a circuit is archived or unarchived only by its owner, and
\* deleted only by its owner or an administrator; every other such request is
\* rejected and leaves the circuit and its content unchanged.
C18_MutatedOnlyByOwnerOrAdmin == [][C18_OwnerOrAdminStep]_vars

\* C18: a teacher who does not own the circuit asked to unarchive it and was
\* refused, and the circuit is still archived
C18_Witness ==
    /\ response.route = UnarchiveRoute
    /\ response.status = 403
    /\ Requester(response.user).isTeacher
    /\ IsSome(getWisdomCircuit(response.target))
    /\ OwnerOf(response.target) # response.user
    /\ Get(getWisdomCircuit(response.target)).isArchived

\* C19: a content item is archived only by a request of the owner of its
\* circuit: an archive request by any other teacher leaves the item's
\* archived flag unchanged.
C19_ArchivedByOwnerStep ==
    \A c \in circuitContent :
        ( ~c.isArchived /\ [c EXCEPT !.isArchived = TRUE] \in circuitContent' )
            => /\ response'.route = ArchiveContentRoute
               /\ response'.user = OwnerOf(c.circuitId)

\* C19: content is archived only by the owner of its circuit
C19_ContentArchivedOnlyByOwner == [][C19_ArchivedByOwnerStep]_vars

(***************************************************************************)
(* Properties of the calls to the external boundaries (BoundarySpec).       *)
(***************************************************************************)
\* C21: no request retries an external call: a chat turn calls the model
\* boundary at most once, and a recording or a pdf upload calls the
\* speech-to-text boundary at most once, whether the call succeeds or fails
\* (exactly once when the request gets as far as the call).
C21_NoRetry ==
    /\ \A r \in ChatIds :
          /\ chat[r].modelCalls <= 1
          /\ ( chat[r].pc = "done" /\ chat[r].status \in {200, 500} )
                => chat[r].modelCalls = 1
    /\ response.calls <= 1
    /\ response.boundary \in {"ok", "failed"} <=> response.calls = 1
    /\ ( response.route = TranscribeRoute /\ Requester(response.user).isTeacher )
          => response.calls = 1
    /\ ( response.route = UploadRoute /\ Requester(response.user).isTeacher
            /\ toLowerCase(response.ext) = ".pdf" )
          => response.calls = 1

\* C21: the speech-to-text call of the last request failed and the model
\* call of a chat turn failed, and each was made once
C21_Witness ==
    /\ response.boundary = "failed"
    /\ response.calls = 1
    /\ chat[1].pc = "done"
    /\ chat[1].status = 500
    /\ chat[1].modelCalls = 1

(***************************************************************************)
(* Properties of chat turns against a changing store (Spec).                *)
(***************************************************************************)
\* C22: a turn whose model call failed has ended with an error, after one
\* call, and the chat window shows the apology for it
C22_FailureShown ==
    \A r \in ChatIds :
        ( chat[r].pc = "done" /\ chat[r].modelCalls > 0 /\ chat[r].status # 200 )
            => /\ chat[r].status = 500
               /\ chat[r].response = "Failed to process chat message"
               /\ handleSend(chat[r].status, chat[r].response) = Apology

\* C22: the step that ends a turn with a failed model call changes no circuit,
\* no content item and no other turn
C22_FailureStep ==
    \A r \in ChatIds :
        ( chat[r].pc = "processChatMessage" /\ chat'[r].status = 500 )
            => /\ UNCHANGED tables
               /\ chat'[r].pc = "done"
               /\ \A o \in ChatIds \ {r} : chat'[o] = chat[o]

ActiveContent(circuitId) ==
    {c \in circuitContent : c.circuitId = circuitId /\ ~c.isArchived}

\* C23: composition keeps no state across turns: a turn that has read its
\* content with no write since holds exactly the circuit and the active
\* content now stored, and a composed prompt is the mapper's output for what
\* that turn itself read, never a value of an earlier turn.
C23_ComposedFromStore ==
    \A r \in ChatIds :
        chat[r].contentReads > 0
            => /\ chat[r].contentReadAt = writes
                     => /\ Range(chat[r].content) = ActiveContent(chat[r].circuitId)
                        /\ chat[r].circuit = getWisdomCircuit(chat[r].circuitId)
               /\ chat[r].context =
                     Some(chatContext(Get(chat[r].circuit), chat[r].content))
               /\ IsSome(chat[r].systemPrompt)
                     => chat[r].systemPrompt =
                           Some(generateSystemPrompt(Get(chat[r].context)))

\* C23: an upload completed after one turn had read, and the next turn for
\* the same circuit, reading after it, has the new item
C23_Witness ==
    /\ Composed(1) /\ Composed(2)
    /\ chat[2].circuitId = chat[1].circuitId
    /\ chat[1].contentReadAt < chat[2].contentReadAt
    /\ chat[2].contentReadAt = writes
    /\ Len(chat[1].content) = 1
    /\ Len(chat[2].content) = 2

\* the ids of the rows a turn read
ReadIds(r) == {chat[r].content[i].id : i \in DOMAIN chat[r].content}

\* C24: the content read of a turn is one statement: what it returns is the
\* active content of the circuit in the state it is made in, each row once
C24_SnapshotStep ==
    \A r \in ChatIds :
        ( chat[r].pc = "getCircuitContent" /\ chat'[r].pc # "getCircuitContent" )
            => /\ Range(chat'[r].content) = ActiveContent(chat[r].circuitId)
               /\ Len(chat'[r].content) = Cardinality(ActiveContent(chat[r].circuitId))
               /\ UNCHANGED tables

\* C24: the content read of a turn never waits, whatever the other turns, the
\* uploads and the archives are doing, and two turns for the same circuit
\* differ only by rows archived, or inserted, between their reads
C24_NoLockAndBoundedDifference ==
    /\ \A r \in ChatIds :
          chat[r].pc = "getCircuitContent" => ENABLED ChatGetContent(r)
    /\ \A r1, r2 \in ChatIds :
          ( /\ chat[r1].contentReads > 0 /\ chat[r2].contentReads > 0
            /\ chat[r1].circuitId = chat[r2].circuitId
            /\ chat[r1].contentReadAt <= chat[r2].contentReadAt )
          => /\ \A id \in ReadIds(r1) \ ReadIds(r2) :
                   /\ chat[r1].contentReadAt < archivedAt[id]
                   /\ archivedAt[id] <= chat[r2].contentReadAt
             /\ \A new \in ReadIds(r2) \ ReadIds(r1) :
                   \A old \in ReadIds(r1) : new > old

\* C24: under any interleaving of chat turns with uploads and archives, every
\* turn completes without waiting on a lock, its knowledge base is the active
\* content of the circuit at one single instant, and two concurrent turns
\* differ only by items appended or archived between their reads.
C24_TurnsReadSnapshots ==
    []C24_NoLockAndBoundedDifference /\ [][C24_SnapshotStep]_vars

\* C24: two turns for the same circuit are in flight at once, and an upload
\* that completed between their reads is in one and not in the other
C24_Witness ==
    /\ chat[1].pc = "processChatMessage"
    /\ chat[2].pc = "processChatMessage"
    /\ chat[1].circuitId = chat[2].circuitId
    /\ ReadIds(1) # {}
    /\ ReadIds(2) \ ReadIds(1) # {}
    /\ ReadIds(1) \subseteq ReadIds(2)

\* what a directive sentence says after its label and before its full stop
ClauseList(sentence, label) == SubSeq(sentence, Len(label) + 1, Len(sentence) - 1)

\* the line the fixed header of the knowledge base is on, and the line the
\* closing block opens on
HeaderLine(lines) ==
    CHOOSE k \in DOMAIN lines :
        lines[k] = "Knowledge Base:" /\ \A j \in 1 .. (k - 1) : lines[j] # "Knowledge Base:"

ClosingLine(lines) ==
    CHOOSE k \in DOMAIN lines :
        lines[k] = "Remember to:" /\ \A j \in (k + 1) .. Len(lines) : lines[j] # "Remember to:"

\* C25: a composed prompt opens with the preamble sentence, then has the
\* four directive sentences, further down the "Knowledge Base:" header, then
\* the excerpts the turn read, then the closing block, which is the end of
\* the prompt; and the closing block restates the teaching-style,
\* homework-policy and response-style clause lists of the directive
\* sentences of the same prompt, character for character.
C25_SectionsInOrder ==
    \A r \in ChatIds :
        Composed(r) =>
            LET lines == PromptLines(r)
                block == DirectiveBlock(lines)
                header == HeaderLine(lines)
                closing == ClosingLine(lines)
            IN  /\ startsWith(lines[1], "You are an educational AI assistant for ")
                /\ Len(block) = 4
                /\ startsWith(block[1], TeachingLabel)
                /\ startsWith(block[2], HomeworkLabel)
                /\ startsWith(block[3], ResponseLabel)
                /\ \E k \in DOMAIN lines : lines[k] = "Knowledge Base:"
                /\ \E k \in DOMAIN lines : lines[k] = "Remember to:"
                /\ 1 + Len(block) < header
                /\ header < closing
                /\ KnowledgeBaseSection(lines)
                      = join(processedContent(chat[r].content), "\n")
                /\ lines[closing - 1] = ""
                /\ Len(lines) = closing + 4
                /\ lines[closing + 2] = "- Use the teaching styles specified: "
                                           \o ClauseList(block[1], TeachingLabel)
                /\ lines[closing + 3] = "- Follow the homework policy: "
                                           \o ClauseList(block[2], HomeworkLabel)
                /\ lines[closing + 4] = "- Maintain the response style: "
                                           \o ClauseList(block[3], ResponseLabel)

\* C25: a prompt with two excerpts and three clause lists that all differ
C25_Witness ==
    /\ Composed(1)
    /\ Len(chat[1].content) = 2
    /\ LET block == DirectiveBlock(PromptLines(1))
       IN  /\ ClauseList(block[1], TeachingLabel) # ""
           /\ ClauseList(block[2], HomeworkLabel) # ClauseList(block[1], TeachingLabel)
           /\ ClauseList(block[3], ResponseLabel) # ClauseList(block[2], HomeworkLabel)

\* C27: a row that was archived at some time is flagged archived, and no
\* content listing holds it
C27_ArchivedStaysOut ==
    /\ \A c \in circuitContent : archivedAt[c.id] > 0 => c.isArchived
    /\ \A circuitId \in CircuitIds :
          \A listing \in getCircuitContent(circuitId) :
              \A i \in DOMAIN listing :
                  ~listing[i].isArchived /\ archivedAt[listing[i].id] = 0

\* C27: a step creates rows active, leaves the flag of an archived row as it
\* is, and a turn that reads its content gets no row that is archived
C27_IrreversibleStep ==
    /\ \A d \in circuitContent' :
          (\A c \in circuitContent : c.id # d.id) => ~d.isArchived
    /\ \A c \in circuitContent :
          c.isArchived => \A d \in circuitContent' : d.id = c.id => d.isArchived
    /\ \A r \in ChatIds :
          chat'[r].contentReads > chat[r].contentReads
             => \A i \in DOMAIN chat'[r].content :
                   \A c \in circuitContent :
                       c.id = chat'[r].content[i].id => ~c.isArchived

\* C27: content archival is irreversible: every content item is created
\* active, a flag that is true is never set back to false, and an archived
\* item is in no later composition and in no later content listing.
C27_ContentArchivalIrreversible ==
    []C27_ArchivedStaysOut /\ [][C27_IrreversibleStep]_vars

\* C27: an item was archived, another write came after it, and a turn whose
\* read is the latest event composed from the one item that is left
C27_Witness ==
    /\ Composed(2)
    /\ chat[2].contentReadAt = writes
    /\ Len(chat[2].content) = 1
    /\ \E c \in circuitContent :
          /\ c.isArchived
          /\ c.circuitId = chat[2].circuitId
          /\ archivedAt[c.id] > 0
          /\ archivedAt[c.id] < writes
          /\ c.id < chat[2].content[1].id

\* a circuit row with its archived flag put aside
Settings(c) == [c EXCEPT !.isArchived = FALSE]

\* the teachers a circuit can belong to
TeacherIds == {u.id : u \in Requesters}

\* C28: every stored circuit of a teacher is in exactly one of the two
\* listings of that teacher, once, and in no listing of anybody else
C28_ExactlyOneListing ==
    \A c \in wisdomCircuits, t \in TeacherIds :
        \A active \in getWisdomCircuitsByTeacher(t),
           archived \in getArchivedWisdomCircuitsByTeacher(t) :
            LET inActive == {i \in DOMAIN active : active[i] = c}
                inArchived == {i \in DOMAIN archived : archived[i] = c}
            IN  Cardinality(inActive) + Cardinality(inArchived)
                   = IF c.teacherId = t THEN 1 ELSE 0

\* C28: the statement of an archive or an unarchive changes the archived
\* flag of its circuit and nothing else: every circuit keeps its settings,
\* the content is as it was, and the circuit an unarchive returns is in the
\* active listing of its teacher
C28_FlagOnlyStep ==
    ( /\ response' # response
      /\ response'.route \in {ArchiveRoute, UnarchiveRoute}
      /\ response'.status = 200 )
    => /\ {Settings(c) : c \in wisdomCircuits'} = {Settings(c) : c \in wisdomCircuits}
       /\ Cardinality(wisdomCircuits') = Cardinality(wisdomCircuits)
       /\ circuitContent' = circuitContent
       /\ \A c \in wisdomCircuits' :
             c.id = response'.target
                => /\ c.isArchived = (response'.route = ArchiveRoute)
                   /\ response'.route = UnarchiveRoute
                         => \A active \in getWisdomCircuitsByTeacher(c.teacherId)' :
                               \E i \in DOMAIN active : active[i] = c

\* C28: after any sequence of archive and unarchive operations, every
\* existing circuit of a teacher is in exactly one of the listings
\* getWisdomCircuitsByTeacher and getArchivedWisdomCircuitsByTeacher, and
\* an archive followed by an unarchive returns the circuit to the active
\* listing with its settings and its content unchanged.
C28_ArchiveUnarchiveRoundTrip ==
    []C28_ExactlyOneListing /\ [][C28_FlagOnlyStep]_vars

\* C28: the archive of a circuit with content has been answered, the circuit
\* is in the archived listing, and its unarchive is on its way
C28_Witness ==
    /\ response.route = ArchiveRoute
    /\ response.status = 200
    /\ response.rowId = 1
    /\ \E c \in wisdomCircuits :
          /\ c.id = 1
          /\ c.isArchived
          /\ \E archived \in getArchivedWisdomCircuitsByTeacher(c.teacherId) :
                Len(archived) = 1
    /\ \E d \in circuitContent : d.circuitId = 1 /\ ~d.isArchived
    /\ \E q \in RequestIds :
          circuitRequests[q].pc = "unarchive" /\ circuitRequests[q].circuitId = 1

\* C26: deleteWisdomCircuit is all-or-nothing: when it ends with an error,
\* the circuit and every content item that was stored before the call are
\* stored still, so the call that fails has deleted no row.
C26_FailedDeleteStep ==
    \A q \in RequestIds :
        ( /\ circuitRequests[q].pc = "deleteCircuit"
          /\ circuitRequests'[q].pc = "idle"
          /\ response'.status = 500 )
        => circuitRequests[q].removed = {}

C26_DeleteAllOrNothing == [][C26_FailedDeleteStep]_vars

(***************************************************************************)
(* Properties of registration and of the Stripe webhook (AccountsSpec).     *)
(***************************************************************************)
\* C29: no two stored users share an email address
C29_UniqueEmails ==
    \A u1, u2 \in users : u1.email = u2.email => u1 = u2

\* C29: a registration that is answered while its email is stored creates no
\* user and is answered with an error, and a step that stores a user stores
\* one user, whose email was not stored
C29_RegistrationStep ==
    /\ \A q \in RequestIds :
          ( /\ registrations[q].pc # "idle"
            /\ registrations'[q].pc = "idle"
            /\ getUserByEmail(registrations[q].email) # {} )
          => /\ users' = users
             /\ response'.route = RegisterRoute
             /\ response'.status \in {400, 500}
             /\ response'.rowId = 0
    /\ users' # users
          => /\ users \subseteq users'
             /\ Cardinality(users' \ users) = 1
             /\ \A new \in users' \ users : getUserByEmail(new.email) = {}

\* C29: under any interleaving of concurrent registration requests, no two
\* stored users ever share an email address: a registration for an email
\* that is already stored creates no user and is answered with an error, and
\* of two concurrent registrations for the same new email at most one
\* creates a user.
C29_EmailsStayUnique == []C29_UniqueEmails /\ [][C29_RegistrationStep]_vars

\* C29: two registrations for the same new email were in flight together and
\* both passed the check; one has created the user, and the insert of the
\* other is still to come
C29_Witness ==
    /\ Cardinality(users) = 1
    /\ response.route = RegisterRoute
    /\ response.status = 201
    /\ registrations[1].pc = "idle"
    /\ registrations[2].pc = "createUser"
    /\ getUserByEmail(registrations[2].email) # {}

\* the handling of a Stripe event ends with this step
Handled == webhook.pc # "idle" /\ webhook'.pc = "idle"

\* what the handling of a checkout.session.completed event has stored when
\* it ends: one payment, 'succeeded', and one subscription, 'active', if and
\* only if the mode of the session is 'subscription'
CheckoutEffect ==
    LET madePayments == payments' \ payments
        madeSubscriptions ==
            {sub \in subscriptions' : sub.id \in webhook.madeSubscriptions}
                \cup (subscriptions' \ subscriptions)
    IN  /\ Cardinality(madePayments) = 1
        /\ \A p \in madePayments : p.status = "succeeded"
        /\ Cardinality(madeSubscriptions)
              = IF webhook.event.mode = "subscription" THEN 1 ELSE 0
        /\ \A sub \in madeSubscriptions : sub.status = "active"
        /\ payments \subseteq payments'
        /\ users' = users

\* what the handling of a customer.subscription.updated event has changed
\* when it ends: nothing but the status of a subscription of that Stripe id
UpdateEffect ==
    LET status == subscriptionStatus(webhook.event)
        rows == getSubscriptionByStripeId(webhook.event.id)
    IN  /\ payments' = payments
        /\ users' = users
        /\ Cardinality(subscriptions') = Cardinality(subscriptions)
        /\ \A after \in subscriptions' :
              \/ after \in subscriptions
              \/ \E before \in rows :
                    after = [before EXCEPT !.status = status]
        /\ rows = {} => subscriptions' = subscriptions
        /\ rows # {} => \E after \in subscriptions' :
                           /\ after.stripeSubscriptionId = webhook.event.id
                           /\ after.status = status

\* a request to the webhook route answered before any storage call (an event
\* of another type, or a signature that is missing or wrong) stores nothing
ImmediateAnswerEffect ==
    ( /\ webhook.pc = "idle"
      /\ webhook'.pc = "idle"
      /\ response' # response
      /\ response'.route = WebhookRoute )
    => UNCHANGED <<tables, users, subscriptions, payments>>

\* C30: for every Stripe webhook event accepted by handleWebhook (its
\* signature verifies): a checkout.session.completed event creates exactly
\* one payment record with status 'succeeded' and a subscription record
\* (status 'active') if and only if the session mode is 'subscription'; a
\* customer.subscription.updated event changes only the status of the
\* subscription with that Stripe id, to 'active' when the Stripe status is
\* active and to 'past_due' otherwise, and nothing when no such subscription
\* is stored; every other event type changes no stored state.
C30_VerifiedEventStep ==
    /\ (Handled /\ webhook.event.type = Checkout) => CheckoutEffect
    /\ (Handled /\ webhook.event.type = SubscriptionUpdated) => UpdateEffect
    /\ ImmediateAnswerEffect

C30_WebhookEffects == [][C30_VerifiedEventStep]_vars

\* C30, read for the events the route answers {received: true} only
C30_ReceivedEventStep ==
    /\ (Handled /\ response' = Received /\ webhook.event.type = Checkout)
          => CheckoutEffect
    /\ (Handled /\ response' = Received /\ webhook.event.type = SubscriptionUpdated)
          => UpdateEffect
    /\ ImmediateAnswerEffect

C30_ReceivedEventEffects == [][C30_ReceivedEventStep]_vars

\* C30, the same with the update reaching every stored subscription of the
\* Stripe id of the event
C30_ReceivedUpdateReachesAllStep ==
    (Handled /\ response' = Received /\ webhook.event.type = SubscriptionUpdated)
       => \A after \in subscriptions' :
             after.stripeSubscriptionId = webhook.event.id
                => after.status = subscriptionStatus(webhook.event)

C30_ReceivedUpdateReachesAll == [][C30_ReceivedUpdateReachesAllStep]_vars

====
